---------------------------- MODULE Spec2Model ----------------------------
(***************************************************************************)
(* Model of the schema-to-TypeScript generator of qontinui-schemas         *)
(* (scripts/generate_typescript.py).                                       *)
(*                                                                         *)
(* A Python str is a sequence of one-character strings, so that slicing,   *)
(* startswith/endswith, "in", split, strip and join are computed character *)
(* by character as the code computes them.                                 *)
(***************************************************************************)
EXTENDS Integers, Sequences, FiniteSets, TLC

VARIABLES
    pc,           \* position of the running call
    python_type,  \* argument of python_type_to_ts
    annotation,   \* argument of get_ts_type_from_annotation
    known_enums,  \* the enum-name registry (argument, or local of the generator)
    models,       \* argument of generate_typescript_from_models
    idx,          \* index of the generator's running for-loop
    lines,        \* the generator's output buffer
    ret,          \* value returned by the call
    prev,         \* value returned by the previous call with the same arguments
    suspended,    \* locals of the generator call that is switched out, if any
    stack,        \* frames of the mapper calls in progress, the running one last
    self,         \* the object a method is called on
    call_args,    \* the arguments of a method, validator or constructor call
    called,       \* the functions main and generate_from_json_schema have called
    failures,     \* how many of the called batch generators returned False
    success,      \* the local success of generate_from_json_schema
    results       \* the values main's callees have returned to it

vars == <<pc, python_type, annotation, known_enums, models, idx, lines, ret,
          prev, suspended, stack, self, call_args, called, failures, success, results>>

-----------------------------------------------------------------------------
(* Python str operations *)

\* A str is the sequence of its characters, each a one-character string; a
\* character that cannot be written in a string is named by its code point,
\* "U+000B" for '\x0b'.
\* The characters s.strip() removes: the 29 for which str.isspace() holds.
Whitespace ==
    { "\t", "\n", "U+000B", "\f", "\r", "U+001C", "U+001D", "U+001E",
      "U+001F", " ", "U+0085", "U+00A0", "U+1680", "U+2000", "U+2001", "U+2002",
      "U+2003", "U+2004", "U+2005", "U+2006", "U+2007", "U+2008", "U+2009", "U+200A",
      "U+2028", "U+2029", "U+202F", "U+205F", "U+3000" }

StartsWith(s, p) == Len(s) >= Len(p) /\ SubSeq(s, 1, Len(p)) = p

EndsWith(s, p) == Len(s) >= Len(p) /\ SubSeq(s, Len(s) - Len(p) + 1, Len(s)) = p

\* sub in s
Contains(s, sub) ==
    \E i \in 1..(Len(s) - Len(sub) + 1) : SubSeq(s, i, i + Len(sub) - 1) = sub

\* s.find(sub) + 1, for a sub that occurs in s
Find(s, sub) ==
    CHOOSE i \in 1..(Len(s) - Len(sub) + 1) :
        /\ SubSeq(s, i, i + Len(sub) - 1) = sub
        /\ \A j \in 1..(i - 1) : SubSeq(s, j, j + Len(sub) - 1) # sub

\* s.split(sep): left to right, occurrences do not overlap
RECURSIVE Split(_, _)
Split(s, sep) ==
    IF ~Contains(s, sep) THEN <<s>>
    ELSE LET i == Find(s, sep)
         IN  <<SubSeq(s, 1, i - 1)>> \o Split(SubSeq(s, i + Len(sep), Len(s)), sep)

\* sep.join(parts)
RECURSIVE Join(_, _)
Join(parts, sep) ==
    IF Len(parts) = 0 THEN <<>>
    ELSE IF Len(parts) = 1 THEN parts[1]
    ELSE parts[1] \o sep \o Join(Tail(parts), sep)

\* s.strip()
RECURSIVE Strip(_)
Strip(s) ==
    IF Len(s) = 0 THEN s
    ELSE IF s[1] \in Whitespace THEN Strip(Tail(s))
    ELSE IF s[Len(s)] \in Whitespace THEN Strip(SubSeq(s, 1, Len(s) - 1))
    ELSE s

\* s.replace(old, new)
Replace(s, old, new) == Join(Split(s, old), new)

\* s.split(".")[-1]
LastSegment(s) == LET parts == Split(s, <<".">>) IN parts[Len(parts)]

-----------------------------------------------------------------------------
(* python_type_to_ts: the textual path *)

Bar == <<" ","|"," ">>

RecordStringAny == <<"R","e","c","o","r","d","<","s","t","r","i","n","g",","," ","a","n","y",">">>

type_map ==
    << << <<"s","t","r">>,                     <<"s","t","r","i","n","g">> >>,
       << <<"i","n","t">>,                     <<"n","u","m","b","e","r">> >>,
       << <<"f","l","o","a","t">>,             <<"n","u","m","b","e","r">> >>,
       << <<"b","o","o","l">>,                 <<"b","o","o","l","e","a","n">> >>,
       << <<"N","o","n","e">>,                 <<"n","u","l","l">> >>,
       << <<"N","o","n","e","T","y","p","e">>, <<"n","u","l","l">> >>,
       << <<"A","n","y">>,                     <<"a","n","y">> >>,
       << <<"d","a","t","e","t","i","m","e">>, <<"s","t","r","i","n","g">> >>,
       << <<"U","U","I","D">>,                 <<"s","t","r","i","n","g">> >>,
       << <<"d","a","t","e">>,                 <<"s","t","r","i","n","g">> >>,
       << <<"d","i","c","t">>,                 RecordStringAny >> >>

\* python_type in type_map
InTypeMap(s) == \E i \in DOMAIN type_map : type_map[i][1] = s

\* type_map[python_type]
TypeMapGet(s) == type_map[CHOOSE i \in DOMAIN type_map : type_map[i][1] = s][2]

\* lines 1099-1101 without the test for "["
StripQualifiedNoBracketCheck(s) ==
    IF Contains(s, <<".">>) THEN LastSegment(s) ELSE s

\* lines 1099-1101: a qualified name loses its module prefix, unless it has a "["
StripQualified(s) ==
    IF Contains(s, <<".">>) /\ ~Contains(s, <<"[">>) THEN LastSegment(s) ELSE s

\* line 1109
IsUnionForm(s) == Contains(s, Bar)

\* lines 1114-1116
IsListForm(s) ==
    /\ StartsWith(s, <<"l","i","s","t","[">>) \/ StartsWith(s, <<"L","i","s","t","[">>)
    /\ EndsWith(s, <<"]">>)

\* lines 1117-1120: python_type[5:-1], then the interior's own prefix stripping
ListInner(s) == StripQualified(SubSeq(s, 6, Len(s) - 1))

\* lines 1124-1126
IsDictForm(s) ==
    /\ StartsWith(s, <<"d","i","c","t","[">>) \/ StartsWith(s, <<"D","i","c","t","[">>)
    /\ EndsWith(s, <<"]">>)

\* line 1130
IsOptionalForm(s) ==
    /\ StartsWith(s, <<"O","p","t","i","o","n","a","l","[">>)
    /\ EndsWith(s, <<"]">>)

\* line 1131: python_type[9:-1]
OptionalInner(s) == SubSeq(s, 10, Len(s) - 1)

RECURSIVE python_type_to_ts(_)
python_type_to_ts(arg) ==
    LET s == StripQualified(arg)
    IN  IF InTypeMap(s) THEN TypeMapGet(s)
        ELSE IF IsUnionForm(s) THEN
            LET parts == Split(s, Bar)
            IN  Join([i \in 1..Len(parts) |-> python_type_to_ts(Strip(parts[i]))], Bar)
        ELSE IF IsListForm(s) THEN python_type_to_ts(ListInner(s)) \o <<"[","]">>
        ELSE IF IsDictForm(s) THEN RecordStringAny
        ELSE IF IsOptionalForm(s) THEN
            python_type_to_ts(OptionalInner(s)) \o <<" ","|"," ","n","u","l","l">>
        ELSE s

-----------------------------------------------------------------------------
(* Python objects: type annotations, Literal arguments, enum member values *)

\* str(n) for an int
RECURSIVE IntToStr(_)
IntToStr(n) ==
    IF n < 0 THEN <<"-">> \o IntToStr(0 - n)
    ELSE LET digit == <<"0","1","2","3","4","5","6","7","8","9">>[(n % 10) + 1]
         IN  IF n < 10 THEN <<digit>> ELSE IntToStr(n \div 10) \o <<digit>>

\* a str or int value, and its f-string rendering
StrVal(s) == [t |-> "str", s |-> s, n |-> 0]
IntVal(n) == [t |-> "int", s |-> <<>>, n |-> n]
Format(v) == IF v.t = "int" THEN IntToStr(v.n) ELSE v.s

\* An annotation object.  kind: "None" (the value None), "NoneType" (type(None)),
\* "Class" (has __name__), "UnionType" (X | Y), "Generic" (has __origin__),
\* "Any" (typing.Any, a class whose __name__ is "Any"), "Str" (an object with
\* neither: str() is value), "BadName" (an object whose __name__ is hashable
\* and not a str: 5, None), "UnhashableName" (an object whose __name__ cannot
\* be hashed: ['a']).
\* An argument of Literal[...]: "EnumMember", "StrValue", "ValueObj", "Other".
Obj(kind, name, origin, args, value) ==
    [kind |-> kind, name |-> name, origin |-> origin, args |-> args, value |-> value]

NoneAnn     == Obj("None", <<>>, "", <<>>, StrVal(<<>>))
NoneTypeAnn == Obj("NoneType", <<"N","o","n","e","T","y","p","e">>, "", <<>>, StrVal(<<>>))
AnyAnn      == Obj("Any", <<"A","n","y">>, "", <<>>, StrVal(<<"t","y","p","i","n","g",".","A","n","y">>))
Class(name)           == Obj("Class", name, "", <<>>, StrVal(<<>>))
UnionType(args)       == Obj("UnionType", <<>>, "", args, StrVal(<<>>))
Generic(origin, args) == Obj("Generic", <<>>, origin, args, StrVal(<<>>))
StrAnn(text)          == Obj("Str", <<>>, "", <<>>, StrVal(text))
BadNameAnn            == Obj("BadName", <<>>, "", <<>>, StrVal(<<>>))
UnhashableNameAnn     == Obj("UnhashableName", <<>>, "", <<>>, StrVal(<<>>))
EnumMember(name, v)   == Obj("EnumMember", name, "", <<>>, v)
StrValue(s)           == Obj("StrValue", <<>>, "", <<>>, StrVal(s))
ValueObj(v)           == Obj("ValueObj", <<>>, "", <<>>, v)
Other(v)              == Obj("Other", <<>>, "", <<>>, v)

\* typing.Optional[X] is typing.Union[X, None]
OptionalOf(x) == Generic("typing.Union", <<x, NoneTypeAnn>>)

HasOrigin(a) == a.kind = "Generic"
HasName(a)   == a.kind \in {"Class", "NoneType", "Any", "BadName", "UnhashableName"}

Quoted(s) == <<"\"">> \o s \o <<"\"">>

-----------------------------------------------------------------------------
(* get_ts_type_from_annotation: the structured path *)

RECURSIVE get_ts_type_from_annotation(_, _)

\* The call raises: a name that cannot be hashed makes 'name in known_enums'
\* (line 1212) a TypeError; a hashable name that is not a str is in no registry
\* and reaches python_type_to_ts, whose '"." in python_type' (line 1099) is a
\* TypeError; the recursive calls of lines 1159, 1192 and 1203 pass it on.
\* get_ts_type_from_annotation is applied only where Raises is false.
RECURSIVE Raises(_, _)
Raises(a, enums) ==
    IF a.kind = "None" THEN FALSE
    ELSE IF a.kind = "UnionType" THEN
        \E i \in 1..Len(a.args) : a.args[i].kind # "NoneType" /\ Raises(a.args[i], enums)
    ELSE IF a.kind = "Generic" /\ a.origin = "typing.Literal" THEN FALSE
    ELSE IF a.kind = "Generic" THEN
        IF a.origin = "list" THEN Len(a.args) > 0 /\ Raises(a.args[1], enums)
        ELSE IF a.origin = "typing.Union" THEN
            \E i \in 1..Len(a.args) : a.args[i].kind # "NoneType" /\ Raises(a.args[i], enums)
        ELSE FALSE
    ELSE a.kind \in {"BadName", "UnhashableName"}

\* lines 1154-1159 and 1198-1203 with None members moved to the end
UnionTypeStrsNullLast(args, enums) ==
    LET nonNull == SelectSeq(args, LAMBDA a : a.kind # "NoneType")
        nulls   == SelectSeq(args, LAMBDA a : a.kind = "NoneType")
    IN  [i \in 1..Len(nonNull) |-> get_ts_type_from_annotation(nonNull[i], enums)]
            \o [i \in 1..Len(nulls) |-> <<"n","u","l","l">>]

\* lines 1154-1159 and 1198-1203: type_strs, one entry per argument
UnionTypeStrs(args, enums) ==
    [i \in 1..Len(args) |->
        IF args[i].kind = "NoneType" THEN <<"n","u","l","l">>
        ELSE get_ts_type_from_annotation(args[i], enums)]

\* lines 1168-1182 with an enum member rendered by its name
LiteralStrSymbolicName(arg) ==
    IF arg.kind = "EnumMember" THEN Quoted(arg.name)
    ELSE IF arg.kind = "StrValue" THEN Quoted(arg.value.s)
    ELSE IF arg.kind = "ValueObj" THEN Quoted(Format(arg.value))
    ELSE Quoted(Format(arg.value))

\* lines 1168-1182: one Literal argument
LiteralStr(arg) ==
    IF arg.kind = "EnumMember" THEN Quoted(Format(arg.value))
    ELSE IF arg.kind = "StrValue" THEN Quoted(arg.value.s)
    ELSE IF arg.kind = "ValueObj" THEN Quoted(Format(arg.value))
    ELSE Quoted(Format(arg.value))

\* lines 1210-1214 with a registered enum lowered like a primitive
NamedTypeEnumAsString(name, enums) ==
    IF name \in enums THEN <<"s","t","r","i","n","g">> ELSE python_type_to_ts(name)

\* lines 1210-1214
NamedType(name, enums) ==
    IF name \in enums THEN name ELSE python_type_to_ts(name)

\* lines 1223-1238: the str(annotation) fallback
StrFallback(text) ==
    LET s1 == Replace(text, <<"t","y","p","i","n","g",".","A","n","y">>, <<"a","n","y">>)
        s2 == Replace(s1, <<"t","y","p","i","n","g",".">>, <<>>)
        s3 == IF Contains(s2, <<".">>) /\ ~StartsWith(s2, <<"R","e","c","o","r","d">>)
              THEN LastSegment(s2) ELSE s2
    IN  IF StartsWith(s3, <<"d","i","c","t","[">>) THEN RecordStringAny
        ELSE python_type_to_ts(s3)

\* lines 1205-1207: a generic that is neither list, dict nor Union
UnknownGeneric(a) == <<"a","n","y">>

get_ts_type_from_annotation(a, enums) ==
    IF a.kind = "None" THEN <<"a","n","y">>
    ELSE IF a.kind = "UnionType" THEN Join(UnionTypeStrs(a.args, enums), Bar)
    ELSE IF HasOrigin(a) /\ a.origin = "typing.Literal" THEN
        Join([i \in 1..Len(a.args) |-> LiteralStr(a.args[i])], Bar)
    ELSE IF HasOrigin(a) THEN
        IF a.origin = "list" THEN
            IF Len(a.args) > 0
            THEN get_ts_type_from_annotation(a.args[1], enums) \o <<"[","]">>
            ELSE <<"a","n","y","[","]">>
        ELSE IF a.origin = "dict" THEN RecordStringAny
        ELSE IF a.origin = "typing.Union" THEN Join(UnionTypeStrs(a.args, enums), Bar)
        ELSE UnknownGeneric(a)
    ELSE IF HasName(a) THEN NamedType(a.name, enums)
    ELSE IF a.kind = "Any" THEN <<"a","n","y">>
    ELSE StrFallback(a.value.s)

-----------------------------------------------------------------------------
(* generate_typescript_from_models: the declaration emitter *)

\* An element of the models list: an Enum class (has __members__), a pydantic
\* model (has model_fields), or any other object (has neither).
EnumClass(name, members) == [kind |-> "enum", name |-> name, members |-> members, fields |-> <<>>]
ModelClass(name, fields) == [kind |-> "model", name |-> name, members |-> <<>>, fields |-> fields]
OtherClass(name)         == [kind |-> "other", name |-> name, members |-> <<>>, fields |-> <<>>]

\* (name, value) of __members__.items()
Member(name, value) == [name |-> name, value |-> value]

\* (field_name, field_info) of model_fields.items(); alias and description are
\* <<>> for None and <<s>> for the str s
Field(field_name, alias, ann, required, description) ==
    [field_name |-> field_name, alias |-> alias, annotation |-> ann,
     required |-> required, description |-> description]

\* truthiness of an Optional[str]
Truthy(opt) == Len(opt) = 1 /\ Len(opt[1]) > 0

HasMembers(m)     == m.kind = "enum"
HasModelFields(m) == m.kind = "model"

\* lines 1243-1249
Banner ==
    << <<"/","*","*">>,
       <<" ","*"," ","A","u","t","o","-","g","e","n","e","r","a","t","e","d"," ","T","y","p","e","S","c","r","i","p","t"," ","t","y","p","e","s"," ","f","r","o","m"," ","q","o","n","t","i","n","u","i","-","s","c","h","e","m","a","s">>,
       <<" ","*"," ","D","O"," ","N","O","T"," ","E","D","I","T"," ","-"," ","r","e","g","e","n","e","r","a","t","e"," ","w","i","t","h",":"," ","p","o","e","t","r","y"," ","r","u","n"," ","p","y","t","h","o","n"," ","s","c","r","i","p","t","s","/","g","e","n","e","r","a","t","e","_","t","y","p","e","s","c","r","i","p","t",".","p","y">>,
       <<" ","*","/">>,
       <<>> >>

\* lines 1260-1264 with the member's symbolic name in the place of its value
EnumBlockSymbolicName(m) ==
    << <<"e","x","p","o","r","t"," ","e","n","u","m"," ">> \o m.name \o <<" ","{">> >>
    \o [i \in 1..Len(m.members) |->
            <<" "," ">> \o m.members[i].name \o <<" ","="," ","\"">>
                \o m.members[i].name \o <<"\"",",">>]
    \o << <<"}">>, <<>> >>

\* lines 1260-1264: the block of one enum
EnumBlock(m) ==
    << <<"e","x","p","o","r","t"," ","e","n","u","m"," ">> \o m.name \o <<" ","{">> >>
    \o [i \in 1..Len(m.members) |->
            <<" "," ">> \o m.members[i].name \o <<" ","="," ","\"">>
                \o Format(m.members[i].value) \o <<"\"",",">>]
    \o << <<"}">>, <<>> >>

\* lines 1274-1291 with the optionality test inverted
FieldLinesMarkerInverted(f, enums) ==
    LET ts_type         == get_ts_type_from_annotation(f.annotation, enums)
        optional_marker == IF f.required THEN <<"?">> ELSE <<>>
        output_name     == IF Truthy(f.alias) THEN f.alias[1] ELSE f.field_name
    IN  (IF Truthy(f.description)
         THEN << <<" "," ","/","*","*"," ">> \o f.description[1] \o <<" ","*","/">> >>
         ELSE <<>>)
        \o << <<" "," ">> \o output_name \o optional_marker \o <<":"," ">>
                \o ts_type \o <<";">> >>

\* lines 1274-1291 with the marker taken from the nullability of the type
FieldLinesMarkerFromNullable(f, enums) ==
    LET ts_type         == get_ts_type_from_annotation(f.annotation, enums)
        optional_marker == IF EndsWith(ts_type, <<"n","u","l","l">>) THEN <<"?">> ELSE <<>>
        output_name     == IF Truthy(f.alias) THEN f.alias[1] ELSE f.field_name
    IN  (IF Truthy(f.description)
         THEN << <<" "," ","/","*","*"," ">> \o f.description[1] \o <<" ","*","/">> >>
         ELSE <<>>)
        \o << <<" "," ">> \o output_name \o optional_marker \o <<":"," ">>
                \o ts_type \o <<";">> >>

\* lines 1274-1291 with the internal field name always written
FieldLinesInternalName(f, enums) ==
    LET ts_type         == get_ts_type_from_annotation(f.annotation, enums)
        optional_marker == IF ~f.required THEN <<"?">> ELSE <<>>
        output_name     == f.field_name
    IN  (IF Truthy(f.description)
         THEN << <<" "," ","/","*","*"," ">> \o f.description[1] \o <<" ","*","/">> >>
         ELSE <<>>)
        \o << <<" "," ">> \o output_name \o optional_marker \o <<":"," ">>
                \o ts_type \o <<";">> >>

\* lines 1274-1291 with a comment line for every description that is not None
FieldLinesCommentAlways(f, enums) ==
    LET ts_type         == get_ts_type_from_annotation(f.annotation, enums)
        optional_marker == IF ~f.required THEN <<"?">> ELSE <<>>
        output_name     == IF Truthy(f.alias) THEN f.alias[1] ELSE f.field_name
    IN  (IF Len(f.description) = 1
         THEN << <<" "," ","/","*","*"," ">> \o f.description[1] \o <<" ","*","/">> >>
         ELSE <<>>)
        \o << <<" "," ">> \o output_name \o optional_marker \o <<":"," ">>
                \o ts_type \o <<";">> >>

\* lines 1274-1291: the lines of one field
FieldLines(f, enums) ==
    LET ts_type         == get_ts_type_from_annotation(f.annotation, enums)
        optional_marker == IF ~f.required THEN <<"?">> ELSE <<>>
        output_name     == IF Truthy(f.alias) THEN f.alias[1] ELSE f.field_name
    IN  (IF Truthy(f.description)
         THEN << <<" "," ","/","*","*"," ">> \o f.description[1] \o <<" ","*","/">> >>
         ELSE <<>>)
        \o << <<" "," ">> \o output_name \o optional_marker \o <<":"," ">>
                \o ts_type \o <<";">> >>

RECURSIVE FieldsLines(_, _)
FieldsLines(fields, enums) ==
    IF Len(fields) = 0 THEN <<>>
    ELSE FieldLines(fields[1], enums) \o FieldsLines(Tail(fields), enums)

\* line 1271
InterfaceHeader(m) ==
    <<"e","x","p","o","r","t"," ","i","n","t","e","r","f","a","c","e"," ">> \o m.name \o <<" ","{">>

\* lines 1273-1274: the fields whose type resolution raises
RaisingFields(m, enums) ==
    { j \in 1..Len(m.fields) : Raises(m.fields[j].annotation, enums) }

\* lines 1271-1291: what the buffer has received when field k raises
InterfaceBlockUpTo(m, k, enums) ==
    << InterfaceHeader(m) >> \o FieldsLines(SubSeq(m.fields, 1, k - 1), enums)

\* lines 1271-1294: the block of one model
InterfaceBlock(m, enums) ==
    << InterfaceHeader(m) >>
    \o FieldsLines(m.fields, enums)
    \o << <<"}">>, <<>> >>

-----------------------------------------------------------------------------
(* Inputs *)

MaxNest  == 2   \* nesting depth of the textual inputs
MaxArgs  == 3   \* arguments of a structured union
MaxBatch == 3   \* length of the models list
MaxParBatch == 2   \* length of the models list of each of two concurrent calls

TextAtoms ==
    { <<"s","t","r">>, <<"N","o","n","e">>, <<"A">>, <<"u","u","i","d",".","U","U","I","D">>,
      <<"m",".","T">>, <<"t",".","S","e","t","[","m",".","T","]">> }

TextPrefixes == { <<"l","i","s","t","[">>, <<"L","i","s","t","[">>, <<"d","i","c","t","[","s","t","r",","," ">>, <<"D","i","c","t","[">>, <<"O","p","t","i","o","n","a","l","[">>,
                  <<"S","e","t","[">> }

RECURSIVE TextLevel(_)
TextLevel(d) ==
    IF d = 0 THEN TextAtoms
    ELSE LET P == TextLevel(d - 1)
         IN  P \cup { pre \o p \o <<"]">> : pre \in TextPrefixes, p \in P }
               \cup { p \o Bar \o a : p \in P, a \in TextAtoms }
               \cup { a \o Bar \o p : a \in TextAtoms, p \in P }

\* strings with whitespace other than the space at their ends and around "|"
TextWhitespace ==
    { <<"\f","A">>,
      <<"A","\f">>,
      <<"U+000B","A">>,
      <<"A"," ","|"," ","\f","i","n","t">>,
      <<"A"," ","|","U+2000","i","n","t">>,
      <<"U+00A0","s","t","r"," ","|"," ","A","U+0085">>,
      <<" ","s","t","r","\t">> }

TextInputs == TextLevel(MaxNest) \cup TextWhitespace

N_str    == <<"s","t","r">>
N_int    == <<"i","n","t">>
N_date   == <<"d","a","t","e">>
N_Status == <<"S","t","a","t","u","s">>
N_Color  == <<"C","o","l","o","r">>
N_Widget == <<"W","i","d","g","e","t">>

Leaves == { Class(N_str), Class(N_int), Class(N_date), Class(N_Status), NoneTypeAnn }

UnionPool ==
    Leaves \cup { Generic("list", <<Class(N_str)>>),
                  Generic("dict", <<Class(N_str), Class(N_int)>>) }

\* __args__ of a union: the runtime keeps at least two arguments, all distinct
UnionArgLists ==
    { s \in UNION { [1..k -> UnionPool] : k \in 2..MaxArgs } :
        \A i, j \in DOMAIN s : i # j => s[i] # s[j] }

LiteralAnns ==
    { Generic("typing.Literal", <<StrValue(<<"l","e","f","t">>), StrValue(<<"r","i","g","h","t">>)>>),
      Generic("typing.Literal", <<EnumMember(<<"R","E","D">>, StrVal(<<"r","e","d">>)), StrValue(<<"l","e","f","t">>)>>),
      Generic("typing.Literal", <<Other(IntVal(12)), ValueObj(StrVal(<<"b","l","u","e">>))>>),
      Generic("typing.Literal", <<Other(IntVal(0 - 1))>>),
      Generic("typing.Literal", <<EnumMember(<<"L","E","V","E","L">>, IntVal(10)), EnumMember(<<"N","E","G">>, IntVal(0 - 3))>>) }

StrAnns ==
    { StrAnn(<<"W","i","d","g","e","t">>), StrAnn(<<"t","y","p","i","n","g",".","A","n","y">>), StrAnn(<<"m",".","T">>),
      StrAnn(<<"d","i","c","t","[","s","t","r",","," ","t","y","p","i","n","g",".","A","n","y","]">>), StrAnn(<<"t","y","p","i","n","g",".","L","i","s","t","[","i","n","t","]">>) }

Annotations ==
    { NoneAnn, AnyAnn, Generic("list", <<>>) } \cup Leaves \cup LiteralAnns \cup StrAnns
    \cup { Generic("list", <<x>>) : x \in Leaves }
    \cup { Generic("dict", <<Class(N_str), x>>) : x \in Leaves }
    \cup { Generic("tuple", <<x>>) : x \in Leaves }
    \cup { Generic("set", <<Class(N_str)>>), Generic("frozenset", <<Class(N_int)>>) }
    \cup { UnhashableNameAnn, Generic("list", <<UnhashableNameAnn>>),
           Generic("typing.Union", <<Class(N_str), UnhashableNameAnn>>) }
    \cup { BadNameAnn, Generic("list", <<BadNameAnn>>),
           Generic("dict", <<Class(N_str), BadNameAnn>>),
           UnionType(<<Generic("list", <<BadNameAnn>>), NoneTypeAnn>>),
           Generic("typing.Union", <<BadNameAnn, NoneTypeAnn>>) }
    \cup { UnionType(s) : s \in UnionArgLists }
    \cup { Generic("typing.Union", s) : s \in UnionArgLists }
    \cup { Generic("list", <<Generic("typing.Union", s)>>) : s \in UnionArgLists }

N_Any == <<"A","n","y">>

Registries == SUBSET { N_Status, N_date } \cup { {N_Any} }

ColorEnum ==
    EnumClass(N_Color, << Member(<<"R","E","D">>, StrVal(<<"r","e","d">>)), Member(<<"B","L","U","E">>, StrVal(<<"b","l","u","e">>)) >>)

StatusEnum ==
    EnumClass(N_Status, << Member(<<"A","C","T","I","V","E">>, StrVal(<<"a","c","t","i","v","e">>)), Member(<<"L","E","V","E","L">>, IntVal(10)),
                          Member(<<"N","E","G">>, IntVal(0 - 3)) >>)

WidgetModel ==
    ModelClass(N_Widget,
        << Field(<<"i","d">>,    <<>>, Class(N_str),                   TRUE,  <<>>),
           Field(<<"l","a","b","e","l">>, <<>>, OptionalOf(Class(N_str)),       FALSE, <<>>),
           Field(<<"t","a","g","s">>,  <<>>, Generic("list", <<Class(N_str)>>), TRUE, <<>>),
           Field(<<"c","o","l","o","r">>, <<>>, Class(N_Color),                 TRUE,  <<>>) >>)

GadgetModel ==
    ModelClass(<<"G","a","d","g","e","t">>,
        << Field(<<"o","w","n","e","r","_","r","e","f">>, <<<<"o","w","n","e","r","R","e","f">>>>, UnionType(<<Class(N_Widget), NoneTypeAnn>>), FALSE, <<<<"T","h","e"," ","o","w","n","e","r">>>>),
           Field(<<"s","t","a","t","u","s">>, <<>>, Class(N_Status), TRUE, <<<<>>>>),
           Field(<<"p","a","r","e","n","t">>, <<<<>>>>, OptionalOf(Class(N_str)), TRUE, <<>>),
           Field(<<"c","o","u","n","t">>, <<>>, Class(N_int), FALSE, <<<<"H","o","w"," ","m","a","n","y">>>>),
           Field(<<"p","a","i","r">>, <<>>, Generic("tuple", <<Class(N_int), Class(N_str)>>), TRUE, <<>>) >>)

BrokenModel ==
    ModelClass(<<"B","r","o","k","e","n">>,
        << Field(<<"o","k">>, <<>>, Class(N_str), TRUE, <<>>),
           Field(<<"b","a","d">>, <<>>, BadNameAnn, TRUE, <<<<"B","r","o","k","e","n"," ","t","y","p","e">>>>),
           Field(<<"a","f","t","e","r">>, <<>>, Class(N_int), TRUE, <<>>) >>)

N_Event == <<"E","v","e","n","t">>

DateEnum ==
    EnumClass(N_date, << Member(<<"T","O","D","A","Y">>, StrVal(<<"t","o","d","a","y">>)) >>)

EventModel ==
    ModelClass(N_Event,
        << Field(<<"d","a","y">>, <<>>, Class(N_date), TRUE, <<>>) >>)

PlainClass == OtherClass(<<"P","l","a","i","n">>)

ModelPool == { ColorEnum, StatusEnum, WidgetModel, GadgetModel, BrokenModel, PlainClass }

Batches == UNION { [1..k -> ModelPool] : k \in 0..MaxBatch }

\* the batches of two concurrent calls
ParPool == { DateEnum, EventModel }

ParBatches == UNION { [1..k -> ParPool] : k \in 0..MaxParBatch }

-----------------------------------------------------------------------------
(* The state machine: one call of one of the three functions *)

\* the variables of the other programs of the repository, at rest
env == <<self, call_args, called, failures, success, results>>

NoEnv ==
    /\ self = <<>>
    /\ call_args = <<>>
    /\ called = <<>>
    /\ failures = 0
    /\ success = TRUE
    /\ results = <<>>

InitText ==
    /\ pc = "python_type_to_ts"
    /\ python_type \in TextInputs
    /\ annotation = NoneAnn
    /\ known_enums = {}
    /\ models = <<>>
    /\ idx = 0
    /\ lines = <<>>
    /\ ret = <<>>
    /\ prev = <<>>
    /\ suspended = <<>>
    /\ stack = <<>>
    /\ NoEnv

InitAnn ==
    /\ pc = "get_ts_type_from_annotation"
    /\ python_type = <<>>
    /\ annotation \in Annotations
    /\ known_enums \in Registries
    /\ models = <<>>
    /\ idx = 0
    /\ lines = <<>>
    /\ ret = <<>>
    /\ prev = <<>>
    /\ suspended = <<>>
    /\ stack = <<>>
    /\ NoEnv

InitGen ==
    /\ pc = "generate_typescript_from_models"
    /\ python_type = <<>>
    /\ annotation = NoneAnn
    /\ known_enums = {}
    /\ models \in Batches \cup ParBatches
    /\ idx = 0
    /\ lines = <<>>
    /\ ret = <<>>
    /\ prev = <<>>
    /\ suspended = <<>>
    /\ stack = <<>>
    /\ NoEnv

\* the variables of the generator script, at rest
gen == <<python_type, annotation, known_enums, models, idx, lines, prev, suspended, stack>>

NoGen ==
    /\ python_type = <<>>
    /\ annotation = NoneAnn
    /\ known_enums = {}
    /\ models = <<>>
    /\ idx = 0
    /\ lines = <<>>
    /\ prev = <<>>
    /\ suspended = <<>>
    /\ stack = <<>>

\* lines 1078-1140
CallPythonTypeToTs ==
    /\ pc = "python_type_to_ts"
    /\ ret' = python_type_to_ts(python_type)
    /\ pc' = "text_done"
    /\ UNCHANGED <<python_type, annotation, known_enums, models, idx, lines, prev, suspended, stack, env>>

\* lines 1143-1238
CallGetTsTypeFromAnnotation ==
    /\ pc = "get_ts_type_from_annotation"
    /\ IF Raises(annotation, known_enums)
       THEN pc' = "ann_raised" /\ ret' = ret
       ELSE pc' = "ann_done" /\ ret' = get_ts_type_from_annotation(annotation, known_enums)
    /\ UNCHANGED <<python_type, annotation, known_enums, models, idx, lines, prev, suspended, stack, env>>

\* lines 1243-1252: the banner and the empty registry
GenStart ==
    /\ pc = "generate_typescript_from_models"
    /\ lines' = Banner
    /\ known_enums' = {}
    /\ idx' = 1
    /\ pc' = "collect"
    /\ UNCHANGED <<python_type, annotation, models, ret, prev, suspended, stack, env>>

\* lines 1253-1255 registering only the enums that stand before the first model
GenCollectUntilModel ==
    /\ pc = "collect"
    /\ idx <= Len(models)
    /\ known_enums' = IF HasMembers(models[idx])
                         /\ \A j \in 1..(idx - 1) : ~HasModelFields(models[j])
                      THEN known_enums \cup {models[idx].name} ELSE known_enums
    /\ idx' = idx + 1
    /\ UNCHANGED <<pc, python_type, annotation, models, lines, ret, prev, suspended, stack, env>>

\* lines 1253-1255: one iteration of the loop that collects the enum names
GenCollect ==
    /\ pc = "collect"
    /\ idx <= Len(models)
    /\ known_enums' = IF HasMembers(models[idx])
                      THEN known_enums \cup {models[idx].name} ELSE known_enums
    /\ idx' = idx + 1
    /\ UNCHANGED <<pc, python_type, annotation, models, lines, ret, prev, suspended, stack, env>>

GenCollectDone ==
    /\ pc = "collect"
    /\ idx > Len(models)
    /\ idx' = 1
    /\ pc' = "enums"
    /\ UNCHANGED <<python_type, annotation, known_enums, models, lines, ret, prev, suspended, stack, env>>

\* lines 1258-1264 as a single pass that emits every declaration where it stands
GenEnumSinglePass ==
    /\ pc = "enums"
    /\ idx <= Len(models)
    /\ lines' = IF HasMembers(models[idx]) THEN lines \o EnumBlock(models[idx])
                ELSE IF HasModelFields(models[idx])
                     THEN lines \o InterfaceBlock(models[idx], known_enums)
                ELSE lines
    /\ idx' = idx + 1
    /\ UNCHANGED <<pc, python_type, annotation, known_enums, models, ret, prev, suspended, stack, env>>

\* lines 1258-1264: one iteration of the loop that emits the enums
GenEnum ==
    /\ pc = "enums"
    /\ idx <= Len(models)
    /\ lines' = IF HasMembers(models[idx]) THEN lines \o EnumBlock(models[idx]) ELSE lines
    /\ idx' = idx + 1
    /\ UNCHANGED <<pc, python_type, annotation, known_enums, models, ret, prev, suspended, stack, env>>

GenEnumDone ==
    /\ pc = "enums"
    /\ idx > Len(models)
    /\ idx' = 1
    /\ pc' = "interfaces"
    /\ UNCHANGED <<python_type, annotation, known_enums, models, lines, ret, prev, suspended, stack, env>>

\* lines 1267-1294: one iteration of the loop that emits the interfaces
\* no handler: an exception raised by line 1274 leaves the function
GenInterface ==
    /\ pc = "interfaces"
    /\ idx <= Len(models)
    /\ LET m   == models[idx]
           bad == IF HasModelFields(m) THEN RaisingFields(m, known_enums) ELSE {}
       IN  IF bad = {}
           THEN /\ lines' = IF HasModelFields(m)
                            THEN lines \o InterfaceBlock(m, known_enums) ELSE lines
                /\ idx' = idx + 1
                /\ pc' = pc
           ELSE /\ lines' = lines \o InterfaceBlockUpTo(m, CHOOSE k \in bad : \A j \in bad : k <= j,
                                                       known_enums)
                /\ idx' = idx
                /\ pc' = "gen_raised"
    /\ UNCHANGED <<python_type, annotation, known_enums, models, ret, prev, suspended, stack, env>>

\* line 1296
GenReturn ==
    /\ pc = "interfaces"
    /\ idx > Len(models)
    /\ ret' = Join(lines, <<"\n">>)
    /\ pc' = "gen_done"
    /\ UNCHANGED <<python_type, annotation, known_enums, models, idx, lines, prev, suspended, stack, env>>

-----------------------------------------------------------------------------
(* The two mappers statement by statement.  A frame holds the locals of one *)
(* call; stack holds the frames of the calls in progress, the running one   *)
(* last.  known_enums is the one set object every call is handed.           *)

\* lines 1078-1080 and 1143: the frame of a call that has run no statement yet.
\* at is the statement the call stands at, is_str whether python_type is a str.
Frame(fn, ann, text, is_str) ==
    [fn |-> fn, at |-> "start", annotation |-> ann, python_type |-> text,
     is_str |-> is_str, args |-> <<>>, parts |-> <<>>, type_strs |-> <<>>,
     literals |-> <<>>, i |-> 0, value |-> <<>>]

\* line 1143: get_ts_type_from_annotation(a, known_enums) is entered
GetTsFrame(a) == Frame("get_ts_type_from_annotation", a, <<>>, TRUE)

\* lines 1078-1080: python_type_to_ts(text) is entered
PythonTypeToTsFrame(text, is_str) == Frame("python_type_to_ts", NoneAnn, text, is_str)

\* a return statement has evaluated its value
Returning(f, v) == [f EXCEPT !.at = "return", !.value = v]

\* lines 1099-1140: the body of python_type_to_ts up to its return or its next
\* call; the result is the frame, followed by the callee's frame if it calls.
\* '"." in python_type' raises TypeError for a python_type that is not a str.
PythonTypeToTsBody(f) ==
    IF ~f.is_str THEN << [f EXCEPT !.at = "raise"] >>
    ELSE LET g == [f EXCEPT !.python_type = StripQualified(f.python_type)]
         IN  IF InTypeMap(g.python_type)
             THEN << Returning(g, TypeMapGet(g.python_type)) >>
             ELSE IF IsUnionForm(g.python_type)
             THEN << [g EXCEPT !.parts = Split(g.python_type, Bar), !.i = 1,
                               !.at = "line1111"] >>
             ELSE IF IsListForm(g.python_type)
             THEN << [g EXCEPT !.at = "line1121"],
                     PythonTypeToTsFrame(ListInner(g.python_type), TRUE) >>
             ELSE IF IsDictForm(g.python_type)
             THEN << Returning(g, RecordStringAny) >>
             ELSE IF IsOptionalForm(g.python_type)
             THEN << [g EXCEPT !.at = "line1132"],
                     PythonTypeToTsFrame(OptionalInner(g.python_type), TRUE) >>
             ELSE << Returning(g, g.python_type) >>

\* line 1111: join takes the next item of the generator expression, which
\* calls python_type_to_ts(p.strip()), or the parts are used up and it returns
PythonTypeToTsNextPart(f) ==
    IF f.i > Len(f.parts) THEN << Returning(f, Join(f.type_strs, Bar)) >>
    ELSE << f, PythonTypeToTsFrame(Strip(f.parts[f.i]), TRUE) >>

\* lines 1223-1232: the cleaned str(annotation)
CleanedTypeStr(text) ==
    LET s1 == Replace(text, <<"t","y","p","i","n","g",".","A","n","y">>, <<"a","n","y">>)
        s2 == Replace(s1, <<"t","y","p","i","n","g",".">>, <<>>)
    IN  IF Contains(s2, <<".">>) /\ ~StartsWith(s2, <<"R","e","c","o","r","d">>)
        THEN LastSegment(s2) ELSE s2

\* lines 1235-1238
GetTsStrTail(f, type_str) ==
    IF StartsWith(type_str, <<"d","i","c","t","[">>)
    THEN << Returning(f, RecordStringAny) >>
    ELSE << [f EXCEPT !.at = "line1238"], PythonTypeToTsFrame(type_str, TRUE) >>

\* lines 1186-1207: an annotation with __origin__ that is not a Literal
GetTsGenericBody(f) ==
    IF f.annotation.origin = "list" THEN
        IF Len(f.annotation.args) > 0
        THEN << [f EXCEPT !.args = f.annotation.args, !.at = "line1192"],
                GetTsFrame(f.annotation.args[1]) >>
        ELSE << Returning(f, <<"a","n","y","[","]">>) >>
    ELSE IF f.annotation.origin = "dict" THEN << Returning(f, RecordStringAny) >>
    ELSE IF f.annotation.origin = "typing.Union"
    THEN << [f EXCEPT !.args = f.annotation.args, !.type_strs = <<>>, !.i = 1,
                      !.at = "line1199"] >>
    ELSE << Returning(f, <<"a","n","y">>) >>

\* lines 1148-1238: the body of get_ts_type_from_annotation up to its return,
\* its first loop iteration or its next call; enums is the set known_enums names.
\* 'name in known_enums' (line 1212) hashes the name: TypeError if it cannot.
GetTsBody(f, enums) ==
    IF f.annotation.kind = "None" THEN << Returning(f, <<"a","n","y">>) >>
    ELSE IF f.annotation.kind = "UnionType"
    THEN << [f EXCEPT !.args = f.annotation.args, !.type_strs = <<>>, !.i = 1,
                      !.at = "line1155"] >>
    ELSE IF HasOrigin(f.annotation) /\ f.annotation.origin = "typing.Literal"
    THEN << [f EXCEPT !.args = f.annotation.args, !.literals = <<>>, !.i = 1,
                      !.at = "line1168"] >>
    ELSE IF HasOrigin(f.annotation) THEN GetTsGenericBody(f)
    ELSE IF HasName(f.annotation) THEN
        IF f.annotation.kind = "UnhashableName" THEN << [f EXCEPT !.at = "raise"] >>
        ELSE IF f.annotation.kind # "BadName" /\ f.annotation.name \in enums
        THEN << Returning(f, f.annotation.name) >>
        ELSE << [f EXCEPT !.at = "line1214"],
                PythonTypeToTsFrame(f.annotation.name, f.annotation.kind # "BadName") >>
    ELSE IF f.annotation.kind = "Any" THEN << Returning(f, <<"a","n","y">>) >>
    ELSE GetTsStrTail(f, CleanedTypeStr(f.annotation.value.s))

\* lines 1155-1160 and 1199-1204: one iteration of the loop over the union's
\* arguments, or the return after the last
GetTsNextArg(f) ==
    IF f.i > Len(f.args) THEN << Returning(f, Join(f.type_strs, Bar)) >>
    ELSE IF f.args[f.i].kind = "NoneType"
    THEN << [f EXCEPT !.type_strs = Append(@, <<"n","u","l","l">>), !.i = @ + 1] >>
    ELSE << f, GetTsFrame(f.args[f.i]) >>

\* lines 1168-1183: one iteration of the loop over the Literal's arguments, or
\* the return after the last
GetTsNextLiteral(f) ==
    IF f.i > Len(f.args) THEN << Returning(f, Join(f.literals, Bar)) >>
    ELSE << [f EXCEPT !.literals = Append(@, LiteralStr(f.args[f.i])), !.i = @ + 1] >>

\* the frame f when the call it made has returned v
Resume(f, v) ==
    IF f.at \in {"line1111", "line1155", "line1199"}
    THEN [f EXCEPT !.type_strs = Append(@, v), !.i = @ + 1]
    ELSE IF f.at \in {"line1121", "line1192"} THEN Returning(f, v \o <<"[","]">>)
    ELSE IF f.at = "line1132" THEN Returning(f, v \o <<" ","|"," ","n","u","l","l">>)
    ELSE Returning(f, v)

\* the next statements of the running frame of python_type_to_ts
PythonTypeToTsStep(f) ==
    IF f.at = "start" THEN PythonTypeToTsBody(f) ELSE PythonTypeToTsNextPart(f)

\* the next statements of the running frame of get_ts_type_from_annotation
GetTsStep(f, enums) ==
    IF f.at = "start" THEN GetTsBody(f, enums)
    ELSE IF f.at = "line1168" THEN GetTsNextLiteral(f)
    ELSE GetTsNextArg(f)

Top == stack[Len(stack)]

\* a mapper call, made standalone or by the generator's field loop, is running
InCall ==
    \/ pc \in {"first_call", "second_call"} /\ stack # <<>>
    \/ pc = "fields" /\ Len(stack) >= 2

Running ==
    /\ InCall
    /\ Top.at \notin {"return", "raise"}

InitCallText ==
    /\ pc = "call_python_type_to_ts"
    /\ python_type \in TextInputs
    /\ annotation = NoneAnn
    /\ known_enums = {}
    /\ models = <<>>
    /\ idx = 0
    /\ lines = <<>>
    /\ ret = <<>>
    /\ prev = <<>>
    /\ suspended = <<>>
    /\ stack = <<>>
    /\ NoEnv

InitCallAnn ==
    /\ pc = "call_get_ts_type_from_annotation"
    /\ python_type = <<>>
    /\ annotation \in Annotations
    /\ known_enums \in Registries
    /\ models = <<>>
    /\ idx = 0
    /\ lines = <<>>
    /\ ret = <<>>
    /\ prev = <<>>
    /\ suspended = <<>>
    /\ stack = <<>>
    /\ NoEnv

\* line 1078: python_type_to_ts(python_type) is called, and called once more
\* with the same argument when it has returned
EnterPythonTypeToTs ==
    /\ pc \in {"call_python_type_to_ts", "text_returned"}
    /\ stack' = << PythonTypeToTsFrame(python_type, TRUE) >>
    /\ prev' = IF pc = "text_returned" THEN ret ELSE prev
    /\ pc' = IF pc = "text_returned" THEN "second_call" ELSE "first_call"
    /\ UNCHANGED <<python_type, annotation, known_enums, models, idx, lines, ret, suspended, env>>

\* line 1143: get_ts_type_from_annotation(annotation, known_enums) is called,
\* and called once more with the same arguments when it has returned
EnterGetTsTypeFromAnnotation ==
    /\ pc \in {"call_get_ts_type_from_annotation", "ann_returned"}
    /\ stack' = << GetTsFrame(annotation) >>
    /\ prev' = IF pc = "ann_returned" THEN ret ELSE prev
    /\ pc' = IF pc = "ann_returned" THEN "second_call" ELSE "first_call"
    /\ UNCHANGED <<python_type, annotation, known_enums, models, idx, lines, ret, suspended, env>>

\* lines 1279-1291: the lines of one field whose type has been resolved
FieldLinesOf(f, ts_type) ==
    LET optional_marker == IF ~f.required THEN <<"?">> ELSE <<>>
        output_name     == IF Truthy(f.alias) THEN f.alias[1] ELSE f.field_name
    IN  (IF Truthy(f.description)
         THEN << <<" "," ","/","*","*"," ">> \o f.description[1] \o <<" ","*","/">> >>
         ELSE <<>>)
        \o << <<" "," ">> \o output_name \o optional_marker \o <<":"," ">>
                \o ts_type \o <<";">> >>

\* lines 1267-1273: the loop over the models reaches a model, writes its header
\* and enters the loop over its fields (i is the field the loop stands at);
\* GenInterface is the same iteration in one step
GenInterfaceEnter ==
    /\ pc = "interfaces"
    /\ idx <= Len(models)
    /\ HasModelFields(models[idx])
    /\ lines' = Append(lines, InterfaceHeader(models[idx]))
    /\ stack' = << [Frame("generate_typescript_from_models", NoneAnn, <<>>, TRUE)
                       EXCEPT !.at = "line1273", !.i = 1] >>
    /\ pc' = "fields"
    /\ UNCHANGED <<python_type, annotation, known_enums, models, idx, ret, prev, suspended, env>>

\* lines 1273-1276: the next field's annotation is read and
\* get_ts_type_from_annotation(annotation, known_enums) is called
GenFieldCall ==
    /\ pc = "fields"
    /\ Len(stack) = 1
    /\ stack[1].i <= Len(models[idx].fields)
    /\ stack' = << [stack[1] EXCEPT !.annotation = models[idx].fields[stack[1].i].annotation,
                                    !.at = "line1276"],
                   GetTsFrame(models[idx].fields[stack[1].i].annotation) >>
    /\ UNCHANGED <<pc, python_type, annotation, known_enums, models, idx, lines, ret, prev, suspended, env>>

\* lines 1276-1291: the call has returned ts_type; the field's lines are
\* written and the loop goes to the next field
GenFieldReturn ==
    /\ pc = "fields"
    /\ Len(stack) = 2
    /\ Top.at = "return"
    /\ lines' = lines \o FieldLinesOf(models[idx].fields[stack[1].i], Top.value)
    /\ stack' = << [stack[1] EXCEPT !.at = "line1273", !.i = @ + 1] >>
    /\ UNCHANGED <<pc, python_type, annotation, known_enums, models, idx, ret, prev, suspended, env>>

\* line 1276 has no handler: the exception of the call leaves the generator
GenFieldRaise ==
    /\ pc = "fields"
    /\ Len(stack) = 2
    /\ Top.at = "raise"
    /\ stack' = <<>>
    /\ pc' = "gen_raised"
    /\ UNCHANGED <<python_type, annotation, known_enums, models, idx, lines, ret, prev, suspended, env>>

\* lines 1293-1294: the fields are used up; the block is closed and the loop
\* over the models goes on
GenFieldsDone ==
    /\ pc = "fields"
    /\ Len(stack) = 1
    /\ stack[1].i > Len(models[idx].fields)
    /\ lines' = lines \o << <<"}">>, <<>> >>
    /\ idx' = idx + 1
    /\ stack' = <<>>
    /\ pc' = "interfaces"
    /\ UNCHANGED <<python_type, annotation, known_enums, models, ret, prev, suspended, env>>

\* lines 1099-1140: the running frame of python_type_to_ts runs up to its next
\* call or return
StepPythonTypeToTs ==
    /\ Running
    /\ Top.fn = "python_type_to_ts"
    /\ stack' = SubSeq(stack, 1, Len(stack) - 1) \o PythonTypeToTsStep(Top)
    /\ UNCHANGED <<pc, python_type, annotation, known_enums, models, idx, lines, ret, prev, suspended, env>>

\* lines 1148-1238 with line 1212 adding the name it looks up to known_enums
StepGetTsTypeFromAnnotationRegistering ==
    /\ Running
    /\ Top.fn = "get_ts_type_from_annotation"
    /\ stack' = SubSeq(stack, 1, Len(stack) - 1) \o GetTsStep(Top, known_enums)
    /\ known_enums' = IF Top.at = "start" /\ Top.annotation.kind = "Class"
                      THEN known_enums \cup {Top.annotation.name} ELSE known_enums
    /\ UNCHANGED <<pc, python_type, annotation, models, idx, lines, ret, prev, suspended, env>>

\* lines 1148-1238: the running frame of get_ts_type_from_annotation runs up to
\* its next call or return; known_enums is read at line 1212 and handed to the
\* callees of lines 1159, 1192 and 1203
StepGetTsTypeFromAnnotation ==
    /\ Running
    /\ Top.fn = "get_ts_type_from_annotation"
    /\ stack' = SubSeq(stack, 1, Len(stack) - 1) \o GetTsStep(Top, known_enums)
    /\ UNCHANGED <<pc, python_type, annotation, known_enums, models, idx, lines, ret, prev, suspended, env>>

\* a return statement: the frame is dropped and its value reaches the caller
ReturnToCaller ==
    /\ InCall
    /\ pc = "fields" => Len(stack) > 2
    /\ Top.at = "return"
    /\ IF Len(stack) = 1
       THEN /\ stack' = <<>>
            /\ ret' = Top.value
            /\ pc' = IF Top.fn = "python_type_to_ts"
                     THEN (IF pc = "first_call" THEN "text_returned" ELSE "text_returned_again")
                     ELSE (IF pc = "first_call" THEN "ann_returned" ELSE "ann_returned_again")
       ELSE /\ stack' = SubSeq(stack, 1, Len(stack) - 2)
                            \o << Resume(stack[Len(stack) - 1], Top.value) >>
            /\ UNCHANGED <<pc, ret>>
    /\ UNCHANGED <<python_type, annotation, known_enums, models, idx, lines, prev, suspended, env>>

\* neither function has a handler: an exception leaves every frame
RaiseToCaller ==
    /\ InCall
    /\ pc = "fields" => Len(stack) > 2
    /\ Top.at = "raise"
    /\ IF Len(stack) = 1
       THEN /\ stack' = <<>>
            /\ pc' = IF pc = "first_call" THEN "call_raised" ELSE "call_raised_again"
       ELSE /\ stack' = SubSeq(stack, 1, Len(stack) - 2) \o << [stack[Len(stack) - 1] EXCEPT !.at = "raise"] >>
            /\ pc' = pc
    /\ UNCHANGED <<python_type, annotation, known_enums, models, idx, lines, ret, prev, suspended, env>>

-----------------------------------------------------------------------------
(* AccessibilitySnapshot (accessibility/models.py): the tree and its queries *)

MaxTreeNodes == 4   \* nodes of the accessibility tree

\* an AccessibilityNode: the fields the two queries read
Node(ref, is_interactive, children) ==
    [ref |-> ref, is_interactive |-> is_interactive, children |-> children]

\* an Optional[AccessibilityNode] is <<>> for None and <<node>> for a node; a
\* model instance defines neither __bool__ nor __len__, so only None is false
IsTrue(result) == result # <<>>

RECURSIVE search(_, _)
RECURSIVE SearchChildren(_, _)

\* lines 165-169 returning what the search of the first child returns
SearchChildrenFirstOnly(children, ref) ==
    IF Len(children) = 0 THEN <<>>
    ELSE search(children[1], ref)

\* lines 165-169: the loop over the children and the final return None
SearchChildren(children, ref) ==
    IF Len(children) = 0 THEN <<>>
    ELSE LET result == search(children[1], ref)
         IN  IF IsTrue(result) THEN result ELSE SearchChildren(Tail(children), ref)

\* lines 162-170
search(node, ref) ==
    IF node.ref = ref THEN <<node>> ELSE SearchChildren(node.children, ref)

\* lines 153-172
get_node_by_ref(snapshot, ref) == search(snapshot.root, ref)

RECURSIVE collect(_, _)
RECURSIVE CollectChildren(_, _)

\* lines 185-186: the loop over the children
CollectChildren(children, found) ==
    IF Len(children) = 0 THEN found
    ELSE CollectChildren(Tail(children), collect(children[1], found))

\* lines 182-186 without the descent below an interactive node
collectStopAtInteractive(node, found) ==
    IF node.is_interactive THEN Append(found, node)
    ELSE CollectChildren(node.children, found)

\* lines 182-186: found is the list results after the call
collect(node, found) ==
    CollectChildren(node.children,
                    IF node.is_interactive THEN Append(found, node) ELSE found)

\* lines 174-189
get_interactive_nodes(snapshot) == collect(snapshot.root, <<>>)

Refs == {"@e1", "@e2"}

\* (ref, is_interactive) of the nodes of the input trees
NodeLabels == { <<"@e1", TRUE>>, <<"@e1", FALSE>>, <<"@e2", TRUE>> }

RECURSIVE TreesOfSize(_)
RECURSIVE ForestsOfSize(_)

\* the lists of trees with m nodes in all
ForestsOfSize(m) ==
    IF m = 0 THEN { <<>> }
    ELSE UNION { { <<t>> \o f : t \in TreesOfSize(k), f \in ForestsOfSize(m - k) } : k \in 1..m }

\* the trees with n nodes
TreesOfSize(n) ==
    { Node(l[1], l[2], f) : l \in NodeLabels, f \in ForestsOfSize(n - 1) }

Snapshots == { [root |-> t] : t \in UNION { TreesOfSize(n) : n \in 1..MaxTreeNodes } }

InitSnapshot ==
    /\ pc = "snapshot"
    /\ self \in Snapshots
    /\ call_args = <<>>
    /\ ret = <<>>
    /\ called = <<>> /\ failures = 0 /\ success = TRUE /\ results = <<>>
    /\ NoGen

\* lines 153-172, for a ref of the tree or the ref "@e3" of no node
GetNodeByRef ==
    /\ pc = "snapshot"
    /\ \E ref \in Refs \cup {"@e3"} :
          /\ call_args' = <<ref>>
          /\ ret' = get_node_by_ref(self, ref)
    /\ pc' = "node_by_ref_done"
    /\ UNCHANGED <<self, called, failures, success, results, gen>>

\* lines 174-189
GetInteractiveNodes ==
    /\ pc = "snapshot"
    /\ call_args' = <<>>
    /\ ret' = get_interactive_nodes(self)
    /\ pc' = "interactive_nodes_done"
    /\ UNCHANGED <<self, called, failures, success, results, gen>>

-----------------------------------------------------------------------------
(* VirtualDesktop (config/models/monitors.py): the coordinate conversions *)

MaxMonitors == 2   \* monitors of a virtual desktop
MaxCoord    == 2   \* largest absolute value of an input x coordinate

DefaultMaxX == 1920   \* max_x of a desktop without monitors
DefaultMaxY == 1080   \* max_y of a desktop without monitors

\* a Monitor: the fields the conversions read (width and height are > 0)
Monitor(index, x, y, w, h) == [index |-> index, x |-> x, y |-> y, width |-> w, height |-> h]

MinOf(S) == CHOOSE v \in S : \A u \in S : v <= u
MaxOf(S) == CHOOSE v \in S : \A u \in S : v >= u

\* lines 104-113
right(m)  == m.x + m.width
bottom(m) == m.y + m.height

\* lines 116-118
contains_point(m, screen_x, screen_y) ==
    m.x <= screen_x /\ screen_x < right(m) /\ m.y <= screen_y /\ screen_y < bottom(m)

\* lines 156-162 with the x of the first monitor taken for the minimum
min_xFirstMonitor(d) ==
    IF Len(d.monitors) = 0 THEN 0 ELSE d.monitors[1].x

\* lines 156-198: the bounding box
min_x(d) ==
    IF Len(d.monitors) = 0 THEN 0
    ELSE MinOf({ d.monitors[i].x : i \in 1..Len(d.monitors) })

min_y(d) ==
    IF Len(d.monitors) = 0 THEN 0
    ELSE MinOf({ d.monitors[i].y : i \in 1..Len(d.monitors) })

max_x(d) ==
    IF Len(d.monitors) = 0 THEN DefaultMaxX
    ELSE MaxOf({ right(d.monitors[i]) : i \in 1..Len(d.monitors) })

max_y(d) ==
    IF Len(d.monitors) = 0 THEN DefaultMaxY
    ELSE MaxOf({ bottom(d.monitors[i]) : i \in 1..Len(d.monitors) })

width(d)  == max_x(d) - min_x(d)
height(d) == max_y(d) - min_y(d)

\* lines 299-304: <<>> for None, <<monitor>> for the first monitor with the index
get_monitor_by_index(d, index) ==
    LET hits == { i \in 1..Len(d.monitors) : d.monitors[i].index = index }
    IN  IF hits = {} THEN <<>> ELSE << d.monitors[MinOf(hits)] >>

\* lines 200-219
screen_to_virtual(d, screen_x, screen_y) == <<screen_x - min_x(d), screen_y - min_y(d)>>

\* lines 221-237 with the origin subtracted once more
virtual_to_screenSubtracting(d, virtual_x, virtual_y) ==
    <<virtual_x - min_x(d), virtual_y - min_y(d)>>

\* lines 221-237
virtual_to_screen(d, virtual_x, virtual_y) == <<virtual_x + min_x(d), virtual_y + min_y(d)>>

\* line 267, for the monitor found by line 264
monitor_to_screen(monitor, monitor_x, monitor_y) == <<monitor_x + monitor.x, monitor_y + monitor.y>>

\* line 297, for the monitor found by line 294
screen_to_monitor(monitor, screen_x, screen_y) == <<screen_x - monitor.x, screen_y - monitor.y>>

MonitorPool ==
    { Monitor(0, 0, 0, 2, 1), Monitor(1, 0 - 2, 0, 2, 1), Monitor(1, 1, 0 - 1, 1, 2) }

Desktops == { [monitors |-> s] : s \in UNION { [1..k -> MonitorPool] : k \in 0..MaxMonitors } }

Points == { <<x, y>> : x \in (0 - MaxCoord)..MaxCoord, y \in {0 - 1, 0, 1} }

\* monitor indices: 7 is the index of no monitor
Indices == {0, 1, 7}

InitDesktop ==
    /\ pc = "desktop"
    /\ self \in Desktops
    /\ call_args = <<>>
    /\ ret = <<>>
    /\ called = <<>> /\ failures = 0 /\ success = TRUE /\ results = <<>>
    /\ NoGen

\* lines 200-219
ScreenToVirtual ==
    /\ pc = "desktop"
    /\ \E p \in Points :
          /\ call_args' = <<"screen_to_virtual", p[1], p[2]>>
          /\ ret' = screen_to_virtual(self, p[1], p[2])
    /\ pc' = "converted"
    /\ UNCHANGED <<self, called, failures, success, results, gen>>

\* lines 221-237
VirtualToScreen ==
    /\ pc = "desktop"
    /\ \E p \in Points :
          /\ call_args' = <<"virtual_to_screen", p[1], p[2]>>
          /\ ret' = virtual_to_screen(self, p[1], p[2])
    /\ pc' = "converted"
    /\ UNCHANGED <<self, called, failures, success, results, gen>>

\* lines 239-267
MonitorToScreen ==
    /\ pc = "desktop"
    /\ \E p \in Points, i \in Indices :
          LET monitor == get_monitor_by_index(self, i)
          IN  /\ call_args' = <<"monitor_to_screen", p[1], p[2], i>>
              /\ IF monitor = <<>>
                 THEN pc' = "ValueError" /\ ret' = ret
                 ELSE pc' = "converted" /\ ret' = monitor_to_screen(monitor[1], p[1], p[2])
    /\ UNCHANGED <<self, called, failures, success, results, gen>>

\* lines 269-297
ScreenToMonitor ==
    /\ pc = "desktop"
    /\ \E p \in Points, i \in Indices :
          LET monitor == get_monitor_by_index(self, i)
          IN  /\ call_args' = <<"screen_to_monitor", p[1], p[2], i>>
              /\ IF monitor = <<>>
                 THEN pc' = "ValueError" /\ ret' = ret
                 ELSE pc' = "converted" /\ ret' = screen_to_monitor(monitor[1], p[1], p[2])
    /\ UNCHANGED <<self, called, failures, success, results, gen>>

\* the opposite conversion applied to the point just returned
ConvertBack ==
    /\ pc = "converted"
    /\ ret' = IF call_args[1] = "screen_to_virtual"
                 THEN virtual_to_screen(self, ret[1], ret[2])
              ELSE IF call_args[1] = "virtual_to_screen"
                 THEN screen_to_virtual(self, ret[1], ret[2])
              ELSE IF call_args[1] = "monitor_to_screen"
                 THEN screen_to_monitor(get_monitor_by_index(self, call_args[4])[1], ret[1], ret[2])
              ELSE monitor_to_screen(get_monitor_by_index(self, call_args[4])[1], ret[1], ret[2])
    /\ pc' = "converted_back"
    /\ UNCHANGED <<self, call_args, called, failures, success, results, gen>>

-----------------------------------------------------------------------------
(* Coordinates and Region (config/models/geometry.py): construction *)

\* CoordinateSystem (lines 42-69): the values of the members
SCREEN           == "screen"
VIRTUAL          == "virtual"
MONITOR_RELATIVE == "monitor_relative"

\* an Optional field: <<>> is None, <<v>> holds v
Coordinates(x, y, system, monitor_index) ==
    [x |-> x, y |-> y, system |-> system, monitor_index |-> monitor_index]

Region(x, y, w, h, system, monitor_index) ==
    [x |-> x, y |-> y, width |-> w, height |-> h,
     system |-> system, monitor_index |-> monitor_index]

\* lines 105-115: TRUE when the validator raises ValueError
Coordinates_validate_monitor_index(v) ==
    v.system = <<MONITOR_RELATIVE>> /\ v.monitor_index = <<>>

\* lines 156-166 without the check
Region_validate_monitor_indexSkipped(v) == FALSE

\* lines 156-166: TRUE when the validator raises ValueError
Region_validate_monitor_index(v) ==
    v.system = <<MONITOR_RELATIVE>> /\ v.monitor_index = <<>>

\* lines 145-146: the field constraints gt=0 of Region
RegionFieldsValid(v) == v.width > 0 /\ v.height > 0

Systems        == { <<>>, <<SCREEN>>, <<VIRTUAL>>, <<MONITOR_RELATIVE>> }
MonitorIndexes == { <<>>, <<0>>, <<1>> }

CoordinatesInputs ==
    { Coordinates(x, 0, s, i) : x \in {0 - 1, 0}, s \in Systems, i \in MonitorIndexes }

RegionInputs ==
    { Region(x, 0, w, h, s, i) :
        x \in {0 - 1, 0}, w \in {0, 2}, h \in {0, 1}, s \in Systems, i \in MonitorIndexes }

InitGeometry ==
    /\ pc = "geometry"
    /\ self = <<>>
    /\ call_args = <<>>
    /\ ret = <<>>
    /\ called = <<>> /\ failures = 0 /\ success = TRUE /\ results = <<>>
    /\ NoGen

\* Coordinates(**kwargs): the fields, then the validator of lines 105-115
CreateCoordinates ==
    /\ pc = "geometry"
    /\ \E v \in CoordinatesInputs :
          /\ call_args' = <<"Coordinates", v>>
          /\ IF Coordinates_validate_monitor_index(v)
             THEN pc' = "ValidationError" /\ ret' = ret
             ELSE pc' = "created" /\ ret' = v
    /\ UNCHANGED <<self, called, failures, success, results, gen>>

\* Region(**kwargs): the fields with their constraints, then the validator of lines 156-166
CreateRegion ==
    /\ pc = "geometry"
    /\ \E v \in RegionInputs :
          /\ call_args' = <<"Region", v>>
          /\ IF ~RegionFieldsValid(v) \/ Region_validate_monitor_index(v)
             THEN pc' = "ValidationError" /\ ret' = ret
             ELSE pc' = "created" /\ ret' = v
    /\ UNCHANGED <<self, called, failures, success, results, gen>>

-----------------------------------------------------------------------------
(* main and generate_from_json_schema (scripts/generate_typescript.py) *)

\* lines 1042-1074: the batch generators in the order they are called
Generators ==
    << "generate_testing_types", "generate_rag_types", "generate_events_types",
       "generate_geometry_types", "generate_config_types", "generate_extraction_types",
       "generate_target_types", "generate_workflow_types", "generate_qontinui_config_types",
       "generate_execution_types", "generate_visual_testing_types",
       "generate_findings_types", "generate_descriptions_types" >>

\* How a call of generate_with_pydantic2ts or of a batch generator ends:
\* "True" and "False" are the values returned (False also from the handler
\* "except Exception"); "raises" is the OSError of output_dir.mkdir, which
\* every one of them calls before its try statement (lines 29, 63, 146, ...).
Outcomes == {"True", "False", "raises"}

\* the batch generators called so far by generate_from_json_schema
GeneratorsCalled == SelectSeq(called, LAMBDA f : f # "generate_with_pydantic2ts")

\* the function entered is main, or generate_from_json_schema called on its own
InitMain ==
    /\ \/ pc = "main" /\ call_args = <<"main">>
       \/ pc = "json_schema" /\ call_args = <<"generate_from_json_schema">>
    /\ self = <<>>
    /\ ret = <<>>
    /\ called = <<>> /\ failures = 0 /\ success = TRUE /\ results = <<>>
    /\ NoGen

\* lines 1304-1305 and, when the call returns True, line 1310.
\* An exception leaving main ends the process with a traceback and status 1.
MainGenerateWithPydantic2ts ==
    /\ pc = "main"
    /\ called' = Append(called, "generate_with_pydantic2ts")
    /\ \E outcome \in Outcomes :
          CASE outcome = "True"   -> /\ results' = Append(results, TRUE)
                                     /\ pc' = "complete" /\ ret' = <<0>>
            [] outcome = "False"  -> /\ results' = Append(results, FALSE)
                                     /\ pc' = "json_schema" /\ ret' = ret
            [] outcome = "raises" -> /\ results' = results
                                     /\ pc' = "raised" /\ ret' = <<1>>
    /\ UNCHANGED <<self, call_args, failures, success, gen>>

\* lines 1042-1074: one "if not generate_X(): success = False".
\* failures counts the generators that returned False.
CallBatchGenerator ==
    /\ pc = "json_schema"
    /\ Len(GeneratorsCalled) < Len(Generators)
    /\ called' = Append(called, Generators[Len(GeneratorsCalled) + 1])
    /\ \E outcome \in Outcomes :
          CASE outcome = "True"   -> /\ UNCHANGED <<success, failures>>
                                     /\ pc' = pc /\ ret' = ret
            [] outcome = "False"  -> /\ success' = FALSE /\ failures' = failures + 1
                                     /\ pc' = pc /\ ret' = ret
            [] outcome = "raises" -> /\ UNCHANGED <<success, failures>>
                                     /\ pc' = "raised"
                                     /\ ret' = IF call_args = <<"main">> THEN <<1>> ELSE ret
    /\ UNCHANGED <<self, call_args, results, gen>>

\* line 1075, and in main lines 1306-1310
ReturnFromJsonSchema ==
    /\ pc = "json_schema"
    /\ Len(GeneratorsCalled) = Len(Generators)
    /\ results' = Append(results, success)
    /\ IF call_args = <<"main">>
       THEN IF success THEN pc' = "complete" /\ ret' = <<0>>
                       ELSE pc' = "exit" /\ ret' = <<1>>
       ELSE pc' = "returned" /\ ret' = <<success>>
    /\ UNCHANGED <<self, call_args, called, failures, success, gen>>

-----------------------------------------------------------------------------
(* GUIElementChunk (rag/models.py): the dictionary and Qdrant point formats *)

MaxDim == 2   \* longest embedding

\* A datetime.  tzinfo is <<>> for a naive datetime and <<UtcOffset(..)>> for
\* an aware one.  Equality of records is equality of the fields; datetimes of
\* Python with different offsets are equal when they name the same instant.
DateTime(year, month, day, hour, minute, second, microsecond, tzinfo) ==
    [year |-> year, month |-> month, day |-> day, hour |-> hour,
     minute |-> minute, second |-> second, microsecond |-> microsecond,
     tzinfo |-> tzinfo]

\* The offset of a timezone: seconds and microseconds of the same sign
UtcOffset(seconds, microseconds) == [seconds |-> seconds, microseconds |-> microseconds]

Naive(year, month, day, hour, minute, second, microsecond) ==
    DateTime(year, month, day, hour, minute, second, microsecond, <<>>)

Digits == {"0", "1", "2", "3", "4", "5", "6", "7", "8", "9"}

\* str(n) padded with zeros to w digits
RECURSIVE ZeroPad(_, _)
ZeroPad(n, w) ==
    IF w = 0 THEN <<>> ELSE ZeroPad(n \div 10, w - 1) \o IntToStr(n % 10)

DigitValue(c) ==
    CHOOSE d \in 0..9 : <<"0","1","2","3","4","5","6","7","8","9">>[d + 1] = c

\* int(s) of a string of digits
RECURSIVE StrToInt(_)
StrToInt(s) ==
    IF Len(s) = 0 THEN 0
    ELSE 10 * StrToInt(SubSeq(s, 1, Len(s) - 1)) + DigitValue(s[Len(s)])

Abs(n) == IF n < 0 THEN 0 - n ELSE n

\* The UTC offset as isoformat writes it: +HH:MM, then :SS when there are
\* seconds or microseconds, then .ffffff when there are microseconds
FormatUtcOffset(o) ==
    LET seconds == Abs(o.seconds)
        micro   == Abs(o.microseconds)
    IN  <<IF o.seconds < 0 \/ o.microseconds < 0 THEN "-" ELSE "+">>
            \o ZeroPad(seconds \div 3600, 2) \o <<":">> \o ZeroPad((seconds % 3600) \div 60, 2)
            \o (IF seconds % 60 # 0 \/ micro # 0 THEN <<":">> \o ZeroPad(seconds % 60, 2) ELSE <<>>)
            \o (IF micro # 0 THEN <<".">> \o ZeroPad(micro, 6) ELSE <<>>)

\* datetime.isoformat(): YYYY-MM-DDTHH:MM:SS, then .ffffff when the
\* microseconds are not 0, then the UTC offset of an aware datetime
isoformat(dt) ==
    ZeroPad(dt.year, 4) \o <<"-">> \o ZeroPad(dt.month, 2) \o <<"-">> \o ZeroPad(dt.day, 2)
        \o <<"T">> \o ZeroPad(dt.hour, 2) \o <<":">> \o ZeroPad(dt.minute, 2)
        \o <<":">> \o ZeroPad(dt.second, 2)
        \o (IF dt.microsecond = 0 THEN <<>> ELSE <<".">> \o ZeroPad(dt.microsecond, 6))
        \o (IF dt.tzinfo = <<>> THEN <<>> ELSE FormatUtcOffset(dt.tzinfo[1]))

(* datetime.fromisoformat(s) as CPython 3.11 computes it.  Positions in s count
   from 0, and the character past the end of s is NUL.  The characters of s
   are ASCII, but for the one between the date and the time, which may be any
   character. *)

NUL == "U+0000"
CharAt(s, p) == IF p < Len(s) THEN s[p + 1] ELSE NUL

\* parse_digits: the number that the n characters from position p spell,
\* <<>> when one of them is no digit
ParseDigits(s, p, n) ==
    IF \A i \in 0..(n - 1) : CharAt(s, p + i) \in Digits
    THEN << StrToInt([i \in 1..n |-> CharAt(s, p + i - 1)]) >>
    ELSE <<>>

\* the first position from p on that holds no digit
RECURSIVE SkipDigits(_, _)
SkipDigits(s, p) == IF CharAt(s, p) \in Digits THEN SkipDigits(s, p + 1) ELSE p

is_leap(year) == year % 4 = 0 /\ (year % 100 # 0 \/ year % 400 = 0)

days_in_month(year, month) ==
    IF month = 2
    THEN IF is_leap(year) THEN 29 ELSE 28
    ELSE IF month \in {4, 6, 9, 11} THEN 30 ELSE 31

\* days before the first day of the month, in a year that is no leap year
DaysBeforeMonthTable == <<0, 31, 59, 90, 120, 151, 181, 212, 243, 273, 304, 334>>

days_before_month(year, month) ==
    DaysBeforeMonthTable[month] + (IF month > 2 /\ is_leap(year) THEN 1 ELSE 0)

days_before_year(year) ==
    LET y == year - 1
    IN  y * 365 + y \div 4 - y \div 100 + y \div 400

\* the ordinal of a date, 1 for 0001-01-01
ymd_to_ord(year, month, day) ==
    days_before_year(year) + days_before_month(year, month) + day

\* 0 for a Monday
weekday(year, month, day) == (ymd_to_ord(year, month, day) + 6) % 7

\* the ordinal of the Monday that starts ISO week 1 of the year
iso_week1_monday(year) ==
    LET first_day     == ymd_to_ord(year, 1, 1)
        first_weekday == (first_day + 6) % 7
        week1_monday  == first_day - first_weekday
    IN  IF first_weekday > 3 THEN week1_monday + 7 ELSE week1_monday

\* the date <<year, month, day>> with the ordinal, for an ordinal of 1 or more
ord_to_ymd(ordinal) ==
    LET n0   == ordinal - 1
        n400 == n0 \div 146097
        r400 == n0 % 146097
        n100 == r400 \div 36524
        r100 == r400 % 36524
        n4   == r100 \div 1461
        r4   == r100 % 1461
        n1   == r4 \div 365
        n    == r4 % 365
        year == n400 * 400 + 1 + n100 * 100 + n4 * 4 + n1
    IN  IF n1 = 4 \/ n100 = 4 THEN <<year - 1, 12, 31>>
        ELSE
        LET guess     == (n + 50) \div 32
            preceding == days_before_month(year, guess)
            month     == IF preceding > n THEN guess - 1 ELSE guess
            before    == IF preceding > n
                            THEN preceding - days_in_month(year, month) ELSE preceding
        IN  <<year, month, n - before + 1>>

\* iso_to_ymd and the range of the ordinal: the date of day iso_day of ISO week
\* iso_week of the year, <<>> when there is no such week or day or the date
\* is before 0001-01-01
iso_to_ymd(iso_year, iso_week, iso_day) ==
    LET first_weekday == weekday(iso_year, 1, 1)
        has53   == first_weekday = 3 \/ (first_weekday = 2 /\ is_leap(iso_year))
        ordinal == iso_week1_monday(iso_year) + (iso_week - 1) * 7 + iso_day - 1
    IN  IF iso_week <= 0 \/ iso_week > 53 \/ (iso_week = 53 /\ ~has53) THEN <<>>
        ELSE IF iso_day <= 0 \/ iso_day >= 8 THEN <<>>
        ELSE IF ordinal < 1 THEN <<>>
        ELSE << ord_to_ymd(ordinal) >>

\* _find_isoformat_datetime_separator: where the date ends, -1 for none
find_isoformat_datetime_separator(s) ==
    LET len == Len(s)
    IN  IF len = 7 THEN 7
        ELSE IF CharAt(s, 4) = "-"
        THEN IF CharAt(s, 5) = "W"
             THEN IF len < 8 THEN 0 - 1
                  ELSE IF len > 8 /\ CharAt(s, 8) = "-"
                  THEN IF len = 9 THEN 0 - 1
                       ELSE IF len > 10 /\ CharAt(s, 10) \in Digits THEN 8
                       ELSE 10
                  ELSE 8
             ELSE 10
        ELSE IF CharAt(s, 4) = "W"
        THEN LET stop == SkipDigits(s, 7)
             IN  IF stop < 9 THEN stop ELSE IF stop % 2 = 0 THEN 7 ELSE 8
        ELSE 8

\* the week date after the W at position w - 1, the date ending at len
ParseIsoWeekDate(s, len, year, w, uses_separator) ==
    LET iso_week == ParseDigits(s, w, 2)
        p        == w + 2
        dayAt    == IF uses_separator THEN p + 1 ELSE p
        iso_day  == IF p < len THEN ParseDigits(s, dayAt, 1) ELSE <<1>>
    IN  IF iso_week = <<>> THEN <<>>
        ELSE IF p < len /\ uses_separator /\ CharAt(s, p) # "-" THEN <<>>
        ELSE IF iso_day = <<>> THEN <<>>
        ELSE iso_to_ymd(year, iso_week[1], iso_day[1])

\* parse_isoformat_date: << <<year, month, day>> >> of the date that ends at
\* len, <<>> when it fails; the ranges of a calendar date are not tested here
parse_isoformat_date(s, len) ==
    LET year           == ParseDigits(s, 0, 4)
        uses_separator == CharAt(s, 4) = "-"
        p              == IF uses_separator THEN 5 ELSE 4
    IN  IF year = <<>> THEN <<>>
        ELSE IF CharAt(s, p) = "W"
        THEN ParseIsoWeekDate(s, len, year[1], p + 1, uses_separator)
        ELSE
        LET month == ParseDigits(s, p, 2)
            dayAt == IF uses_separator THEN p + 3 ELSE p + 2
            day   == ParseDigits(s, dayAt, 2)
        IN  IF month = <<>> THEN <<>>
            ELSE IF uses_separator /\ CharAt(s, p + 2) # "-" THEN <<>>
            ELSE IF day = <<>> THEN <<>>
            ELSE << <<year[1], month[1], day[1]>> >>

\* what parse_hh_mm_ss_ff leaves: the values and rv, 1 when characters remain
TimeParts(vals, microsecond, rv) ==
    [hour |-> vals[1], minute |-> vals[2], second |-> vals[3],
     microsecond |-> microsecond, rv |-> rv]

Correction == <<100000, 10000, 1000, 100, 10>>

\* the fraction of parse_hh_mm_ss_ff, from position p to end: at most six
\* digits are read and the digits after them are skipped
ParseFraction(s, end, p, vals) ==
    LET len_remains == end - p
        to_parse    == IF len_remains >= 6 THEN 6 ELSE len_remains
        digits      == ParseDigits(s, p, to_parse)
        rest        == SkipDigits(s, p + to_parse)
    IN  IF digits = <<>> THEN <<>>
        ELSE << TimeParts(vals,
                          IF to_parse < 6 THEN digits[1] * Correction[to_parse] ELSE digits[1],
                          IF CharAt(s, rest) # NUL THEN 1 ELSE 0) >>

\* pass i (0, 1, 2) of the loop of parse_hh_mm_ss_ff over HH, MM, SS
RECURSIVE ParseHhMmSs(_, _, _, _, _, _)
ParseHhMmSs(s, end, p, i, has_separator, vals) ==
    LET digits == ParseDigits(s, p, 2)
        c      == CharAt(s, p + 2)
        next   == p + 3
        sep    == IF i = 0 THEN c = ":" ELSE has_separator
    IN  IF digits = <<>> THEN <<>>
        ELSE
        LET vals1 == [vals EXCEPT ![i + 1] = digits[1]]
        IN  IF next >= end THEN << TimeParts(vals1, 0, IF c # NUL THEN 1 ELSE 0) >>
            ELSE IF sep /\ c = ":"
            THEN IF i < 2 THEN ParseHhMmSs(s, end, next, i + 1, sep, vals1)
                          ELSE ParseFraction(s, end, next, vals1)
            ELSE IF c \in {".", ","} THEN ParseFraction(s, end, next, vals1)
            ELSE IF ~sep
            THEN IF i < 2 THEN ParseHhMmSs(s, end, next - 1, i + 1, sep, vals1)
                          ELSE ParseFraction(s, end, next - 1, vals1)
            ELSE <<>>

\* parse_hh_mm_ss_ff of the characters from start to end
parse_hh_mm_ss_ff(s, start, end) == ParseHhMmSs(s, end, start, 0, TRUE, <<0, 0, 0>>)

\* the position of the first Z, + or - from p on, tested at p in any case
RECURSIVE TzinfoPos(_, _)
TzinfoPos(s, p) ==
    IF CharAt(s, p) \in {"Z", "+", "-"} THEN p
    ELSE IF p + 1 < Len(s) THEN TzinfoPos(s, p + 1) ELSE p + 1

\* tzinfo_from_isoformat_results: the timezone of the offset that
\* parse_hh_mm_ss_ff read after the sign, <<>> when what follows the sign is no
\* offset; an offset of 0 seconds is UTC whatever its microseconds
TzinfoOfOffset(tzsign, tz) ==
    IF tz = <<>> THEN <<>>
    ELSE IF tz[1].rv = 1 THEN <<>>
    ELSE
    LET tzoffset == tzsign * (tz[1].hour * 3600 + tz[1].minute * 60 + tz[1].second)
    IN  IF tzoffset = 0 THEN << <<UtcOffset(0, 0)>> >>
        ELSE << <<UtcOffset(tzoffset, tzsign * tz[1].microsecond)>> >>

\* the rest of parse_isoformat_time, for the time read up to tzinfo_pos and
\* the offset read after it: <<>> when it fails, else the time parts with the
\* tzinfo in place of rv.  What is left after the time is an error only when
\* no offset follows.
TimeWithTzinfo(s, tzinfo_pos, time, tzinfo) ==
    IF time = <<>> THEN <<>>
    ELSE IF tzinfo_pos >= Len(s)
    THEN IF time[1].rv = 1 THEN <<>> ELSE << [time[1] EXCEPT !.rv = <<>>] >>
    ELSE IF CharAt(s, tzinfo_pos) = "Z"
    THEN IF CharAt(s, tzinfo_pos + 1) # NUL THEN <<>>
         ELSE << [time[1] EXCEPT !.rv = <<UtcOffset(0, 0)>>] >>
    ELSE IF tzinfo = <<>> THEN <<>>
    ELSE << [time[1] EXCEPT !.rv = tzinfo[1]] >>

ParseTimeUpTo(s, start, tzinfo_pos) ==
    TimeWithTzinfo(s, tzinfo_pos,
        parse_hh_mm_ss_ff(s, start, tzinfo_pos),
        TzinfoOfOffset(IF CharAt(s, tzinfo_pos) = "-" THEN 0 - 1 ELSE 1,
                       parse_hh_mm_ss_ff(s, tzinfo_pos + 1, Len(s))))

\* parse_isoformat_time of the characters from start on
parse_isoformat_time(s, start) == ParseTimeUpTo(s, start, TzinfoPos(s, start))

\* new_datetime with the checks of its arguments: <<>> is ValueError
new_datetime(date, time) ==
    IF date = <<>> \/ time = <<>> THEN <<>>
    ELSE
    LET year == date[1][1]  month == date[1][2]  day == date[1][3]
        tz   == time[1].rv
    IN  IF tz # <<>> /\ ~(tz[1].seconds > 0 - 86400 /\ tz[1].seconds < 86400) THEN <<>>
        ELSE IF ~(year >= 1 /\ year <= 9999 /\ month >= 1 /\ month <= 12
                     /\ day >= 1 /\ day <= days_in_month(year, month)) THEN <<>>
        ELSE IF ~(time[1].hour <= 23 /\ time[1].minute <= 59 /\ time[1].second <= 59) THEN <<>>
        ELSE << DateTime(year, month, day, time[1].hour, time[1].minute,
                         time[1].second, time[1].microsecond, tz) >>

FromIsoformatAt(s, separator_location) ==
    IF Len(s) < 7 \/ separator_location < 0 THEN <<>>
    ELSE new_datetime(parse_isoformat_date(s, separator_location),
                      IF Len(s) > separator_location
                         THEN parse_isoformat_time(s, separator_location + 1)
                         ELSE << TimeParts(<<0, 0, 0>>, 0, <<>>) >>)

\* datetime.fromisoformat(s): <<>> is ValueError, <<dt>> the datetime
fromisoformat(s) == FromIsoformatAt(s, find_isoformat_datetime_separator(s))

\* lines 63-79
BoundingBox(x, y, w, h) == [x |-> x, y |-> y, width |-> w, height |-> h]
BoundingBox_to_dict(b)   == [x |-> b.x, y |-> b.y, width |-> b.width, height |-> b.height]
BoundingBox_from_dict(d) == BoundingBox(d.x, d.y, d.width, d.height)

\* ElementType (lines 9-60): the name and the value of every member, in order
ElementTypeTable ==
    << <<"BUTTON", "button">>, <<"ICON_BUTTON", "icon_button">>, <<"TOGGLE_BUTTON", "toggle_button">>,
       <<"DROPDOWN_BUTTON", "dropdown_button">>, <<"TEXT_INPUT", "text_input">>, <<"SEARCH_INPUT", "search_input">>,
       <<"PASSWORD_INPUT", "password_input">>, <<"TEXTAREA", "textarea">>, <<"CHECKBOX", "checkbox">>,
       <<"RADIO_BUTTON", "radio_button">>, <<"DROPDOWN", "dropdown">>, <<"COMBOBOX", "combobox">>,
       <<"SLIDER", "slider">>, <<"LINK", "link">>, <<"TAB", "tab">>,
       <<"MENU_ITEM", "menu_item">>, <<"BREADCRUMB", "breadcrumb">>, <<"MODAL", "modal">>,
       <<"DIALOG", "dialog">>, <<"PANEL", "panel">>, <<"CARD", "card">>,
       <<"ICON", "icon">>, <<"IMAGE", "image">>, <<"LABEL", "label">>,
       <<"BADGE", "badge">>, <<"TOOLTIP", "tooltip">>, <<"TABLE_CELL", "table_cell">>,
       <<"TABLE_HEADER", "table_header">>, <<"LIST_ITEM", "list_item">>, <<"PROGRESS", "progress">>,
       <<"SPINNER", "spinner">>, <<"UNKNOWN", "unknown">> >>

ElementTypeMembers == { ElementTypeTable[i][1] : i \in 1..Len(ElementTypeTable) }
ElementTypeValues  == { ElementTypeTable[i][2] : i \in 1..Len(ElementTypeTable) }

\* member.value
ElementTypeValue(member) ==
    ElementTypeTable[CHOOSE i \in 1..Len(ElementTypeTable) : ElementTypeTable[i][1] = member][2]

\* ElementType(value): the member with the value (ValueError when there is none)
ElementType(value) ==
    ElementTypeTable[CHOOSE i \in 1..Len(ElementTypeTable) : ElementTypeTable[i][2] = value][1]

\* A GUIElementChunk: the fields the two formats convert (id, the datetimes,
\* bounding_box, element_type, the embeddings), one of the Optional fields that
\* are copied (source_state_id) and one of the plain ones (ocr_text).
\* An Optional field: <<>> is None, <<v>> holds v; an embedding is a list, so
\* << <<>> >> is the empty list.
GUIElementChunk(id, created, updated, state_id, box, text, type, text_emb, image_emb) ==
    [id |-> id, created_at |-> created, updated_at |-> updated,
     source_state_id |-> state_id, bounding_box |-> box,
     ocr_text |-> text, element_type |-> type,
     text_embedding |-> text_emb, image_embedding |-> image_emb]

\* data.get(key, default)
DictGet(data, key, default) == IF key \in DOMAIN data THEN data[key] ELSE default

\* payload.pop(key, None) for each of the keys
DictWithout(data, keys) == [k \in DOMAIN data \ keys |-> data[k]]

\* lines 188-250; a bounding box is an object without __bool__ or __len__,
\* so "if self.bounding_box" is "is not None"
to_dict(c) ==
    [id |-> c.id,
     created_at |-> isoformat(c.created_at),
     updated_at |-> isoformat(c.updated_at),
     source_state_id |-> c.source_state_id,
     bounding_box |-> IF c.bounding_box # <<>>
                         THEN <<BoundingBox_to_dict(c.bounding_box[1])>> ELSE <<>>,
     ocr_text |-> c.ocr_text,
     element_type |-> ElementTypeValue(c.element_type),
     text_embedding |-> c.text_embedding,
     image_embedding |-> c.image_embedding]

\* 'if data.get("bounding_box")' (line 259): the key holds a dict that is not empty
HasBoundingBox(data) ==
    /\ DictGet(data, "bounding_box", <<>>) # <<>>
    /\ DOMAIN data.bounding_box[1] # {}

\* lines 254-344: from_dict raises KeyError without "id" or with a bounding box
\* that lacks a key, and ValueError for a datetime string fromisoformat rejects
\* or an element_type that is no value of ElementType.  The datetime keys and
\* element_type, when the dictionary has them, hold strings.
from_dict_raises(data) ==
    \/ "id" \notin DOMAIN data
    \/ HasBoundingBox(data) /\ ~({"x", "y", "width", "height"} \subseteq DOMAIN data.bounding_box[1])
    \/ "created_at" \in DOMAIN data /\ fromisoformat(data.created_at) = <<>>
    \/ "updated_at" \in DOMAIN data /\ fromisoformat(data.updated_at) = <<>>
    \/ DictGet(data, "element_type", "unknown") \notin ElementTypeValues

\* lines 254-344, where from_dict_raises is false.  clock holds what the two
\* calls of datetime.now() (lines 267, 273) return, in that order; the datetime
\* keys hold the strings to_dict writes.
from_dict(data, clock) ==
    GUIElementChunk(
        data.id,
        IF "created_at" \in DOMAIN data THEN fromisoformat(data.created_at)[1] ELSE clock[1],
        IF "updated_at" \in DOMAIN data THEN fromisoformat(data.updated_at)[1] ELSE clock[2],
        DictGet(data, "source_state_id", <<>>),
        IF HasBoundingBox(data)
           THEN <<BoundingBox_from_dict(data.bounding_box[1])>> ELSE <<>>,
        DictGet(data, "ocr_text", ""),
        ElementType(DictGet(data, "element_type", "unknown")),
        DictGet(data, "text_embedding", <<>>),
        DictGet(data, "image_embedding", <<>>))

\* lines 346-368: the vectors are named; the embeddings are tested for truth
to_qdrant_point(c) ==
    LET text  == IF Truthy(c.text_embedding)  THEN {"text_embedding"} ELSE {}
        image == IF Truthy(c.image_embedding) THEN {"clip_embedding"} ELSE {}
        vectors == [k \in text \cup image |->
                       IF k = "text_embedding" THEN c.text_embedding[1]
                                               ELSE c.image_embedding[1]]
    IN  [id |-> c.id,
         vector |-> vectors,
         payload |-> DictWithout(to_dict(c), {"text_embedding", "image_embedding"})]

\* lines 380-400: the payload with the embeddings put back, for a point
\* whose vector is a dict of named vectors
PayloadWithVectors(point) ==
    LET vectors == point.vector
        p0 == point.payload
        p1 == IF "text_embedding" \in DOMAIN vectors
                 THEN [k \in DOMAIN p0 \cup {"text_embedding"} |->
                          IF k = "text_embedding" THEN <<vectors["text_embedding"]>> ELSE p0[k]]
                 ELSE p0
        p2 == IF "clip_embedding" \in DOMAIN vectors
                 THEN [k \in DOMAIN p1 \cup {"image_embedding"} |->
                          IF k = "image_embedding" THEN <<vectors["clip_embedding"]>> ELSE p1[k]]
                 ELSE p1
    IN  IF "dinov2_embedding" \in DOMAIN vectors /\ "image_embedding" \notin DOMAIN p2
           THEN [k \in DOMAIN p2 \cup {"image_embedding"} |->
                    IF k = "image_embedding" THEN <<vectors["dinov2_embedding"]>> ELSE p2[k]]
           ELSE p2

\* lines 370-402
from_qdrant_point(point, clock) == from_dict(PayloadWithVectors(point), clock)

\* None, the empty list, and the lists of 1..MaxDim copies of v
Embeddings(v) == { <<>> } \cup { << [i \in 1..k |-> v] >> : k \in 0..MaxDim }

DateTimes == { Naive(2024, 1, 1, 0, 0, 0, 0), Naive(2024, 2, 29, 23, 59, 7, 5) }

\* what two successive calls of datetime.now() return
ClockTimes ==
    { Naive(2026, 10, 29, 7, 4, 19, 521675), Naive(2026, 10, 29, 7, 4, 19, 521686) }
Clocks == { <<a, b>> : a \in ClockTimes, b \in ClockTimes }

ElementTypeInputs == {"BUTTON", "LINK", "UNKNOWN"}

Chunks ==
    { GUIElementChunk("e1", c, u, s, b, "OK", e, t, i) :
        c \in DateTimes, u \in DateTimes, s \in { <<>>, <<"s1">> },
        b \in { <<>>, <<BoundingBox(0, 0, 0, 0)>> },
        e \in ElementTypeInputs, t \in Embeddings(1), i \in Embeddings(2) }

\* the keys a dictionary given to from_dict may lack
MissingKeys == { {}, {"created_at", "updated_at", "element_type", "ocr_text"}, {"id"} }

InitChunk ==
    /\ pc = "chunk"
    /\ self \in Chunks
    /\ call_args = <<>>
    /\ ret = <<>>
    /\ called = <<>> /\ failures = 0 /\ success = TRUE /\ results = <<>>
    /\ NoGen

\* lines 188-250
ToDict ==
    /\ pc = "chunk"
    /\ ret' = to_dict(self)
    /\ pc' = "dict"
    /\ UNCHANGED <<self, call_args, called, failures, success, results, gen>>

\* lines 254-344, on the dictionary just written or a part of it
FromDict ==
    /\ pc = "dict"
    /\ \E keys \in MissingKeys, clock \in Clocks :
          LET data == DictWithout(ret, keys)
          IN  /\ call_args' = <<data>>
              /\ IF from_dict_raises(data)
                 THEN pc' = "chunk_raised" /\ ret' = <<>>
                 ELSE pc' = "chunk_from_dict" /\ ret' = from_dict(data, clock)
    /\ UNCHANGED <<self, called, failures, success, results, gen>>

\* lines 346-368
ToQdrantPoint ==
    /\ pc = "chunk"
    /\ ret' = to_qdrant_point(self)
    /\ pc' = "point"
    /\ UNCHANGED <<self, call_args, called, failures, success, results, gen>>

\* lines 370-402, on a record with the payload and the vector of the point
FromQdrantPoint ==
    /\ pc = "point"
    /\ \E clock \in Clocks :
          LET point == [payload |-> ret.payload, vector |-> ret.vector]
          IN  /\ call_args' = <<point>>
              /\ IF from_dict_raises(PayloadWithVectors(point))
                 THEN pc' = "chunk_raised" /\ ret' = <<>>
                 ELSE pc' = "chunk_read" /\ ret' = from_qdrant_point(point, clock)
    /\ UNCHANGED <<self, called, failures, success, results, gen>>

-----------------------------------------------------------------------------
(* TestRunComplete and TestRunCompleteResponse (api/testing.py) *)

\* TestRunStatus (lines 26-33): the values of the members
TestRunStatusValues == {"running", "completed", "failed", "timeout", "cancelled"}

\* line 205
allowed == {"completed", "failed", "timeout", "aborted", "crashed"}

\* lines 202-208: TRUE when the validator raises ValueError; otherwise it returns v
validate_status_raises(v) == v \notin allowed

\* the status strings of a completion request
StatusInputs == allowed \cup TestRunStatusValues \cup {"", "bogus", "COMPLETED"}

InitTesting ==
    /\ pc = "testing"
    /\ self = <<>>
    /\ call_args = <<>>
    /\ ret = <<>>
    /\ called = <<>> /\ failures = 0 /\ success = TRUE /\ results = <<>>
    /\ NoGen

\* lines 194-208: TestRunComplete(status=v, ...) runs the validator on v
ValidateStatus ==
    /\ pc = "testing"
    /\ \E v \in StatusInputs :
          /\ call_args' = <<v>>
          /\ IF validate_status_raises(v)
             THEN pc' = "status_rejected" /\ ret' = ret
             ELSE pc' = "status_accepted" /\ ret' = v
    /\ UNCHANGED <<self, called, failures, success, results, gen>>

\* lines 211-219: TestRunCompleteResponse(status=..., ...) with the accepted
\* status; the field is a TestRunStatus, so the string must be a member's value
CompleteResponse ==
    /\ pc = "status_accepted"
    /\ IF ret \in TestRunStatusValues
       THEN pc' = "response_created"
       ELSE pc' = "response_rejected"
    /\ UNCHANGED <<ret, self, call_args, called, failures, success, results, gen>>

Init ==
    \/ InitText \/ InitAnn \/ InitGen \/ InitCallText \/ InitCallAnn \/ InitSnapshot
    \/ InitDesktop \/ InitGeometry \/ InitMain \/ InitChunk \/ InitTesting

Next ==
    \/ CallPythonTypeToTs
    \/ CallGetTsTypeFromAnnotation
    \/ GenStart
    \/ GenCollect
    \/ GenCollectDone
    \/ GenEnum
    \/ GenEnumDone
    \/ GenInterface
    \/ GenReturn
    \/ EnterPythonTypeToTs
    \/ EnterGetTsTypeFromAnnotation
    \/ GenInterfaceEnter
    \/ GenFieldCall
    \/ GenFieldReturn
    \/ GenFieldRaise
    \/ GenFieldsDone
    \/ StepPythonTypeToTs
    \/ StepGetTsTypeFromAnnotation
    \/ ReturnToCaller
    \/ RaiseToCaller
    \/ GetNodeByRef
    \/ GetInteractiveNodes
    \/ ScreenToVirtual
    \/ VirtualToScreen
    \/ MonitorToScreen
    \/ ScreenToMonitor
    \/ ConvertBack
    \/ CreateCoordinates
    \/ CreateRegion
    \/ MainGenerateWithPydantic2ts
    \/ CallBatchGenerator
    \/ ReturnFromJsonSchema
    \/ ToDict
    \/ FromDict
    \/ ToQdrantPoint
    \/ FromQdrantPoint
    \/ ValidateStatus
    \/ CompleteResponse

Spec == Init /\ [][Next]_vars

-----------------------------------------------------------------------------
(* Two calls of generate_typescript_from_models running concurrently.  The  *)
(* variables hold the locals of the call that is running, suspended those   *)
(* of the call that is switched out.                                        *)

Locals(p, m, k, i, l, r) ==
    [pc |-> p, models |-> m, known_enums |-> k, idx |-> i, lines |-> l, ret |-> r]

InitPar ==
    /\ pc = "generate_typescript_from_models"
    /\ python_type = <<>>
    /\ annotation = NoneAnn
    /\ known_enums = {}
    /\ models \in ParBatches
    /\ idx = 0
    /\ lines = <<>>
    /\ ret = <<>>
    /\ prev = <<>>
    /\ stack = <<>>
    /\ NoEnv
    /\ \E b \in ParBatches :
          suspended = << Locals("generate_typescript_from_models", b, {}, 0, <<>>, <<>>) >>

\* a thread switch with the registry kept in one place for all calls
SwitchSharedRegistry ==
    /\ suspended # <<>>
    /\ suspended' = << Locals(pc, models, known_enums, idx, lines, ret) >>
    /\ pc' = suspended[1].pc
    /\ models' = suspended[1].models
    /\ known_enums' = known_enums
    /\ idx' = suspended[1].idx
    /\ lines' = suspended[1].lines
    /\ ret' = suspended[1].ret
    /\ UNCHANGED <<python_type, annotation, prev, stack, env>>

\* a thread switch: names of lines 1241-1296 are locals of the call's frame
Switch ==
    /\ suspended # <<>>
    /\ suspended' = << Locals(pc, models, known_enums, idx, lines, ret) >>
    /\ pc' = suspended[1].pc
    /\ models' = suspended[1].models
    /\ known_enums' = suspended[1].known_enums
    /\ idx' = suspended[1].idx
    /\ lines' = suspended[1].lines
    /\ ret' = suspended[1].ret
    /\ UNCHANGED <<python_type, annotation, prev, stack, env>>

NextPar ==
    \/ GenStart
    \/ GenCollect
    \/ GenCollectDone
    \/ GenEnum
    \/ GenEnumDone
    \/ GenInterface
    \/ GenReturn
    \/ Switch

SpecPar == InitPar /\ [][NextPar]_vars

-----------------------------------------------------------------------------
(* Claims about python_type_to_ts and get_ts_type_from_annotation *)

\* the " | "-joined mappings of the " | "-separated members of s
JoinedMemberMappings(s) ==
    LET parts == Split(s, Bar)
    IN  Join([i \in 1..Len(parts) |-> python_type_to_ts(parts[i])], Bar)

IsUnionAnn(a) == a.kind = "UnionType" \/ (HasOrigin(a) /\ a.origin = "typing.Union")

HasNoneMember(a) == \E i \in DOMAIN a.args : a.args[i].kind = "NoneType"

\* C1: on the textual path the union split comes before list detection:
\* "list[str] | None" maps to "string[] | null", and every string made of
\* " | "-joined members maps to the " | "-joined mappings of those members.
C1_UnionSplitBeforeList ==
    pc = "text_done" =>
        /\ python_type = <<"l","i","s","t","[","s","t","r","]"," ","|"," ","N","o","n","e">> => ret = <<"s","t","r","i","n","g","[","]"," ","|"," ","n","u","l","l">>
        /\ Contains(python_type, Bar) => ret = JoinedMemberMappings(python_type)

\* C2: every dict type maps to "Record<string, any>", whatever its value type:
\* every string "dict[...]" or "Dict[...]", every annotation of origin dict.
C2_DictAlwaysRecord ==
    /\ pc = "text_done" /\ IsDictForm(python_type) => ret = RecordStringAny
    /\ pc = "ann_done" /\ HasOrigin(annotation) /\ annotation.origin = "dict"
            => ret = RecordStringAny

\* C3: a union keeps its members: one rendered member per source member, in
\* source order, joined by " | ", on the textual path and for both structured
\* union spellings.
C3_UnionMembersPreserved ==
    /\ pc = "text_done" /\ Contains(python_type, Bar)
            => ret = JoinedMemberMappings(python_type)
    /\ pc = "ann_done" /\ IsUnionAnn(annotation)
            => ret = Join([i \in 1..Len(annotation.args) |->
                              get_ts_type_from_annotation(annotation.args[i], known_enums)],
                          Bar)

\* C4 as stated: a structured union with a None member renders its non-null
\* members, in order, followed by one trailing " | null", wherever None stands.
C4_NullAlwaysTrailing ==
    pc = "ann_done" /\ IsUnionAnn(annotation) /\ HasNoneMember(annotation) =>
        LET nonNull == SelectSeq(annotation.args, LAMBDA a : a.kind # "NoneType")
        IN  ret = Join([i \in 1..Len(nonNull) |->
                           get_ts_type_from_annotation(nonNull[i], known_enums)], Bar)
                  \o <<" ","|"," ","n","u","l","l">>

\* C4 amended: a structured union with a None member renders one member per
\* argument, in argument order, with "null" exactly at the position of None;
\* when None is the last argument the output is the non-null members followed
\* by one trailing " | null".
C4_NullAtNonePosition ==
    pc = "ann_done" /\ IsUnionAnn(annotation) /\ HasNoneMember(annotation) =>
        LET args    == annotation.args
            parts   == Split(ret, Bar)
            nonNull == SelectSeq(args, LAMBDA a : a.kind # "NoneType")
        IN  /\ Len(parts) = Len(args)
            /\ \A i \in DOMAIN args : (parts[i] = <<"n","u","l","l">>) <=> (args[i].kind = "NoneType")
            /\ \A i \in DOMAIN args :
                   args[i].kind # "NoneType"
                       => parts[i] = get_ts_type_from_annotation(args[i], known_enums)
            /\ args[Len(args)].kind = "NoneType"
                   => ret = Join([i \in 1..Len(nonNull) |->
                                     get_ts_type_from_annotation(nonNull[i], known_enums)],
                                 Bar) \o <<" ","|"," ","n","u","l","l">>

\* C4 witness: None is the first argument and null is the leading member
C4_Witness ==
    /\ pc = "ann_done"
    /\ annotation = Generic("typing.Union", <<NoneTypeAnn, Class(N_str)>>)
    /\ ret = <<"n","u","l","l"," ","|"," ","s","t","r","i","n","g">>

\* C5: Optional wrapping: python_type_to_ts("Optional[" + s + "]") is
\* python_type_to_ts(s) + " | null" for every string s, and the mapping of
\* Optional[D] is the mapping of D followed by " | null".
C5_OptionalWrapping ==
    /\ pc = "text_done"
            => python_type_to_ts(<<"O","p","t","i","o","n","a","l","[">> \o python_type \o <<"]">>) = ret \o <<" ","|"," ","n","u","l","l">>
    /\ pc = "ann_done" /\ annotation.kind \in {"Class", "Generic"} /\ ~IsUnionAnn(annotation)
            => get_ts_type_from_annotation(OptionalOf(annotation), known_enums)
                   = ret \o <<" ","|"," ","n","u","l","l">>

\* C6: list wrapping: python_type_to_ts("list[" + s + "]") and
\* python_type_to_ts("List[" + s + "]") are python_type_to_ts(s) + "[]" for every
\* string s; a list origin with first argument T maps to map(T) + "[]", and to
\* "any[]" without argument.
C6_ListWrapping ==
    /\ pc = "text_done"
            => /\ python_type_to_ts(<<"l","i","s","t","[">> \o python_type \o <<"]">>) = ret \o <<"[","]">>
               /\ python_type_to_ts(<<"L","i","s","t","[">> \o python_type \o <<"]">>) = ret \o <<"[","]">>
    /\ pc = "ann_done" /\ annotation.kind \in {"Class", "NoneType", "UnionType", "Generic"}
            => get_ts_type_from_annotation(Generic("list", <<annotation>>), known_enums)
                   = ret \o <<"[","]">>
    /\ pc = "ann_done" /\ annotation = Generic("list", <<>>) => ret = <<"a","n","y","[","]">>

\* C7 as stated: a named annotation maps to its bare name, in the registry or
\* not, also when the name is a key of the primitive table.
C7_BareNameAlways ==
    pc = "ann_done" /\ annotation.kind \in {"Class", "Any"} => ret = annotation.name

\* C7 amended: a named annotation whose name is no key of the primitive table
\* maps to its bare name whether or not the name is in known_enums; a name that
\* is a key of the table maps to the bare name only when it is in known_enums
\* and to the table's value otherwise.
C7_BareNameUnlessPrimitive ==
    pc = "ann_done" /\ annotation.kind \in {"Class", "Any"} =>
        ret = IF annotation.name \in known_enums \/ ~InTypeMap(annotation.name)
              THEN annotation.name
              ELSE TypeMapGet(annotation.name)

\* C7 witness: a registered enum name is returned bare
C7_Witness ==
    /\ pc = "ann_done"
    /\ annotation = Class(N_Status)
    /\ known_enums = {N_Status}
    /\ ret = N_Status

\* C8: prefix stripping is bracket-aware: a bracket-free qualified name is
\* reduced to its last segment before the table lookup ("uuid.UUID" maps to
\* "string"); a string with a "[" is not stripped at the outer level: its union,
\* list, dict and Optional rules apply to the whole string, a string matching
\* none of them is returned with its dots, and a list strips only its interior
\* ("list[m.T]" maps to "T[]").
C8_StrippingBracketAware ==
    pc = "text_done" =>
        LET s == python_type
        IN  /\ Contains(s, <<".">>) /\ ~Contains(s, <<"[">>)
                   => ret = python_type_to_ts(LastSegment(s))
            /\ Contains(s, <<"[">>) =>
                   IF Contains(s, Bar) THEN ret = JoinedMemberMappings(s)
                   ELSE IF IsListForm(s)
                        THEN LET inner == SubSeq(s, 6, Len(s) - 1)
                             IN  ret = python_type_to_ts(
                                           IF Contains(inner, <<"[">>) THEN inner
                                           ELSE LastSegment(inner)) \o <<"[","]">>
                   ELSE IF IsDictForm(s) THEN ret = RecordStringAny
                   ELSE IF IsOptionalForm(s)
                        THEN ret = python_type_to_ts(SubSeq(s, 10, Len(s) - 1)) \o <<" ","|"," ","n","u","l","l">>
                   ELSE ret = s
            /\ s = <<"u","u","i","d",".","U","U","I","D">> => ret = <<"s","t","r","i","n","g">>
            /\ s = <<"l","i","s","t","[","m",".","T","]">> => ret = <<"T","[","]">>
            /\ s = <<"t",".","S","e","t","[","m",".","T","]">> => ret = <<"t",".","S","e","t","[","m",".","T","]">>

\* C8 witness: the interior of a list is stripped, the list itself is not
C8_Witness ==
    /\ pc = "text_done"
    /\ python_type = <<"l","i","s","t","[","m",".","T","]">>
    /\ ret = <<"T","[","]">>

-----------------------------------------------------------------------------
(* Claims about generate_typescript_from_models *)

ExportEnum      == <<"e","x","p","o","r","t"," ","e","n","u","m"," ">>
ExportInterface == <<"e","x","p","o","r","t"," ","i","n","t","e","r","f","a","c","e"," ">>

RECURSIVE Flatten(_)
Flatten(blocks) == IF Len(blocks) = 0 THEN <<>> ELSE blocks[1] \o Flatten(Tail(blocks))

EnumsOf(ms)      == SelectSeq(ms, HasMembers)
InterfacesOf(ms) == SelectSeq(ms, HasModelFields)
EnumNamesOf(ms)  == { ms[i].name : i \in { j \in DOMAIN ms : HasMembers(ms[j]) } }

\* C9: for the batch [enum Color, model Widget] the output is the banner, the
\* Color block, one blank line and the Widget block, line for line.
C9_EndToEnd ==
    pc = "gen_done" /\ models = <<ColorEnum, WidgetModel>> =>
        /\ SubSeq(lines, 1, 5) = Banner
        /\ SubSeq(lines, 6, 16) =
             << <<"e","x","p","o","r","t"," ","e","n","u","m"," ","C","o","l","o","r"," ","{">>,
                <<" "," ","R","E","D"," ","="," ","\"","r","e","d","\"",",">>,
                <<" "," ","B","L","U","E"," ","="," ","\"","b","l","u","e","\"",",">>,
                <<"}">>,
                <<>>,
                <<"e","x","p","o","r","t"," ","i","n","t","e","r","f","a","c","e"," ","W","i","d","g","e","t"," ","{">>,
                <<" "," ","i","d",":"," ","s","t","r","i","n","g",";">>,
                <<" "," ","l","a","b","e","l","?",":"," ","s","t","r","i","n","g"," ","|"," ","n","u","l","l",";">>,
                <<" "," ","t","a","g","s",":"," ","s","t","r","i","n","g","[","]",";">>,
                <<" "," ","c","o","l","o","r",":"," ","C","o","l","o","r",";">>,
                <<"}">> >>
        /\ Len(lines) = 17
        /\ ret = Join(lines, <<"\n">>)

\* C9 witness: the pass over [Color, Widget] has returned
C9_Witness ==
    /\ pc = "gen_done"
    /\ models = <<ColorEnum, WidgetModel>>
    /\ lines[13] = <<" "," ","l","a","b","e","l","?",":"," ","s","t","r","i","n","g"," ","|"," ","n","u","l","l",";">>

\* C10: whatever the interleaving of enums and models in the input, the output
\* is the banner, then every enum block in input order, then every interface
\* block in input order; no interface block precedes an enum block, at any
\* point of the pass, and consecutive blocks are separated by exactly one blank
\* line.
C10_BatchAssemblyOrder ==
    /\ \A i, j \in DOMAIN lines :
           StartsWith(lines[i], ExportInterface) /\ StartsWith(lines[j], ExportEnum)
               => j < i
    /\ pc = "gen_done" =>
        LET E == EnumsOf(models)
            M == InterfacesOf(models)
        IN  /\ lines = Banner
                  \o Flatten([i \in 1..Len(E) |-> EnumBlock(E[i])])
                  \o Flatten([i \in 1..Len(M) |-> InterfaceBlock(M[i], EnumNamesOf(models))])
            /\ SelectSeq(lines, LAMBDA l : StartsWith(l, ExportEnum))
                   = [i \in 1..Len(E) |-> ExportEnum \o E[i].name \o <<" ","{">>]
            /\ SelectSeq(lines, LAMBDA l : StartsWith(l, ExportInterface))
                   = [i \in 1..Len(M) |-> ExportInterface \o M[i].name \o <<" ","{">>]
            /\ \A i \in DOMAIN lines :
                   StartsWith(lines[i], <<"e","x","p","o","r","t"," ">>)
                       => i > 2 /\ lines[i - 1] = <<>> /\ lines[i - 2] # <<>>
            /\ \A i \in DOMAIN lines :
                   lines[i] = <<>> /\ i > Len(Banner) => lines[i - 1] = <<"}">>
            /\ ret = Join(lines, <<"\n">>)

\* C10 witness: a model stands before an enum in the input, and the enum block
\* is the first block of the output
C10_Witness ==
    /\ pc = "gen_done"
    /\ models = <<WidgetModel, ColorEnum>>
    /\ lines[6] = <<"e","x","p","o","r","t"," ","e","n","u","m"," ","C","o","l","o","r"," ","{">>
    /\ lines[11] = <<"e","x","p","o","r","t"," ","i","n","t","e","r","f","a","c","e"," ","W","i","d","g","e","t"," ","{">>

-----------------------------------------------------------------------------
(* Claims about the registry, the enum blocks and the interface bodies *)

\* C11: from the moment the interface loop starts, i.e. before the first field
\* of the first model is mapped, the registry holds the name of every enum of
\* the batch, wherever the enum stands in the list, and no later step of the
\* pass changes the registry.
C11_RegistryCompleteBeforeMapping ==
    [][ pc = "interfaces" =>
            /\ known_enums = EnumNamesOf(models)
            /\ known_enums' = known_enums
            /\ models' = models ]_vars

\* C11 witness: the fields of Widget have been mapped, the enum Color stands
\* after Widget in the list and is registered
C11_Witness ==
    /\ pc = "interfaces"
    /\ models = <<WidgetModel, ColorEnum>>
    /\ idx = 2
    /\ N_Color \in known_enums
    /\ lines[Len(lines) - 2] = <<" "," ","c","o","l","o","r",":"," ","C","o","l","o","r",";">>

\* the positions in the buffer of the lines that start with prefix p
LinesStarting(p) ==
    SelectSeq([i \in 1..Len(lines) |-> i], LAMBDA i : StartsWith(lines[i], p))

\* C12: once the enum loop is over, the k-th "export enum" line belongs to the
\* k-th enum of the batch and is followed by one line per member, in
\* declaration order, of the form NAME = "value", with the member's underlying
\* value (for an int value its decimal text) and not its symbolic name, and
\* then by the closing brace.
C12_EnumMemberLines ==
    pc \in {"interfaces", "gen_done", "gen_raised"} =>
        LET E == EnumsOf(models)
            H == LinesStarting(ExportEnum)
        IN  /\ Len(H) = Len(E)
            /\ \A k \in 1..Len(E) :
                 LET mem == E[k].members
                 IN  /\ lines[H[k]] = ExportEnum \o E[k].name \o <<" ","{">>
                     /\ \A i \in 1..Len(mem) :
                          /\ lines[H[k] + i] =
                               <<" "," ">> \o mem[i].name \o <<" ","="," ">>
                                   \o Quoted(IF mem[i].value.t = "int"
                                             THEN IntToStr(mem[i].value.n)
                                             ELSE mem[i].value.s)
                                   \o <<",">>
                          /\ lines[H[k] + i] #
                               <<" "," ">> \o mem[i].name \o <<" ","="," ">>
                                   \o Quoted(mem[i].name) \o <<",">>
                     /\ lines[H[k] + Len(mem) + 1] = <<"}">>
                     /\ E[k] = ColorEnum =>
                          /\ lines[H[k] + 1] = <<" "," ","R","E","D"," ","="," ","\"","r","e","d","\"",",">>
                          /\ lines[H[k] + 2] = <<" "," ","B","L","U","E"," ","="," ","\"","b","l","u","e","\"",",">>
                     /\ E[k] = StatusEnum =>
                          /\ lines[H[k] + 1] = <<" "," ","A","C","T","I","V","E"," ","="," ","\"","a","c","t","i","v","e","\"",",">>
                          /\ lines[H[k] + 2] = <<" "," ","L","E","V","E","L"," ","="," ","\"","1","0","\"",",">>
                          /\ lines[H[k] + 3] = <<" "," ","N","E","G"," ","="," ","\"","-","3","\"",",">>

\* C12 witness: the pass over [Status, Color] has returned; RED stands before
\* BLUE, and the int values 10 and -3 are written as "10" and "-3"
C12_Witness ==
    /\ pc = "gen_done"
    /\ models = <<StatusEnum, ColorEnum>>
    /\ lines[8] = <<" "," ","L","E","V","E","L"," ","="," ","\"","1","0","\"",",">>
    /\ lines[9] = <<" "," ","N","E","G"," ","="," ","\"","-","3","\"",",">>
    /\ lines[13] = <<" "," ","R","E","D"," ","="," ","\"","r","e","d","\"",",">>
    /\ lines[14] = <<" "," ","B","L","U","E"," ","="," ","\"","b","l","u","e","\"",",">>

DocPrefix == <<" "," ","/","*","*"," ">>

\* the lines of the buffer between the header at position h and the first
\* closing brace after it
Body(h) ==
    LET close == CHOOSE i \in (h + 1)..Len(lines) :
                     /\ lines[i] = <<"}">>
                     /\ \A j \in (h + 1)..(i - 1) : lines[j] # <<"}">>
    IN  SubSeq(lines, h + 1, close - 1)

\* the lines of a body that are not documentation comments
FieldLinesIn(body) == SelectSeq(body, LAMBDA l : ~StartsWith(l, DocPrefix))

\* the text of a field line between its indentation and its first colon
BeforeColon(l) == SubSeq(l, 3, Find(l, <<":">>) - 1)

\* C13: in the output of a pass, the j-th field line of every interface has
\* "?" right before its colon exactly when the j-th field is not required;
\* what stands before the colon is the written name, followed by "?" for a
\* field that is not required and by nothing for a required one, whether or
\* not the type is nullable.
C13_OptionalMarker ==
    pc = "gen_done" =>
        LET M == InterfacesOf(models)
            H == LinesStarting(ExportInterface)
        IN  /\ Len(H) = Len(M)
            /\ \A k \in 1..Len(M) :
                 LET fl == FieldLinesIn(Body(H[k]))
                     fs == M[k].fields
                 IN  /\ Len(fl) = Len(fs)
                     /\ \A j \in 1..Len(fs) :
                          LET b == BeforeColon(fl[j])
                          IN  /\ StartsWith(fl[j], <<" "," ">>)
                              /\ b[Len(b)] = "?" <=> ~fs[j].required
                              /\ fs[j].required =>
                                   b \in {fs[j].field_name} \cup {fs[j].alias[i] : i \in DOMAIN fs[j].alias}
                              /\ ~fs[j].required =>
                                   SubSeq(b, 1, Len(b) - 1)
                                       \in {fs[j].field_name} \cup {fs[j].alias[i] : i \in DOMAIN fs[j].alias}

\* C13 witness: Gadget has a required field of a nullable type, written
\* without the marker, and a field that is not required and not nullable,
\* written with the marker
C13_Witness ==
    /\ pc = "gen_done"
    /\ models = <<GadgetModel>>
    /\ lines[10] = <<" "," ","p","a","r","e","n","t",":"," ","s","t","r","i","n","g"," ","|"," ","n","u","l","l",";">>
    /\ lines[12] = <<" "," ","c","o","u","n","t","?",":"," ","n","u","m","b","e","r",";">>

\* the name written on the field line l of the field f
WrittenName(l, f) ==
    LET b == BeforeColon(l)
    IN  IF f.required THEN b ELSE SubSeq(b, 1, Len(b) - 1)

\* C14 as stated: the written name is the alias whenever the field has one
\* (any str, the empty one included), and the internal name only when the
\* alias is None.
C14_AliasWheneverPresent ==
    pc = "gen_done" =>
        LET M == InterfacesOf(models)
            H == LinesStarting(ExportInterface)
        IN  \A k \in 1..Len(M) :
              LET fl == FieldLinesIn(Body(H[k]))
                  fs == M[k].fields
              IN  \A j \in 1..Len(fs) :
                    WrittenName(fl[j], fs[j]) =
                        IF fs[j].alias # <<>> THEN fs[j].alias[1] ELSE fs[j].field_name

\* C14 amended: the written name is the alias when the field has a non-empty
\* alias, and the internal field name when the alias is None or the empty str.
C14_AliasWhenNonEmpty ==
    pc = "gen_done" =>
        LET M == InterfacesOf(models)
            H == LinesStarting(ExportInterface)
        IN  \A k \in 1..Len(M) :
              LET fl == FieldLinesIn(Body(H[k]))
                  fs == M[k].fields
              IN  \A j \in 1..Len(fs) :
                    WrittenName(fl[j], fs[j]) =
                        IF fs[j].alias # <<>> /\ fs[j].alias[1] # <<>>
                        THEN fs[j].alias[1] ELSE fs[j].field_name

\* C14 witness: owner_ref is written under its alias ownerRef, parent, whose
\* alias is the empty str, under its internal name
C14_Witness ==
    /\ pc = "gen_done"
    /\ models = <<GadgetModel>>
    /\ GadgetModel.fields[3].alias = << <<>> >>
    /\ lines[8] = <<" "," ","o","w","n","e","r","R","e","f","?",":"," ","W","i","d","g","e","t"," ","|"," ","n","u","l","l",";">>
    /\ lines[10] = <<" "," ","p","a","r","e","n","t",":"," ","s","t","r","i","n","g"," ","|"," ","n","u","l","l",";">>

\* the positions in a body of the lines that are not documentation comments
FieldPositions(body) ==
    SelectSeq([i \in 1..Len(body) |-> i], LAMBDA i : ~StartsWith(body[i], DocPrefix))

\* C15: in the output of a pass, the body of every interface has one field
\* line per field, in declared order, each ending in ";"; a field with a
\* non-empty description has the line "  /** description */" right above its
\* field line; a field with no description, or an empty one, follows the
\* previous field line (or the header) directly; the body has no other line.
C15_InterfaceBodyShape ==
    pc = "gen_done" =>
        LET M == InterfacesOf(models)
            H == LinesStarting(ExportInterface)
        IN  /\ Len(H) = Len(M)
            /\ \A k \in 1..Len(M) :
                 LET body == Body(H[k])
                     fs   == M[k].fields
                     P    == FieldPositions(body)
                     doc  == { j \in 1..Len(fs) :
                                 fs[j].description # <<>> /\ fs[j].description[1] # <<>> }
                 IN  /\ lines[H[k]] = ExportInterface \o M[k].name \o <<" ","{">>
                     /\ Len(P) = Len(fs)
                     /\ Len(body) = Len(fs) + Cardinality(doc)
                     /\ \A j \in 1..Len(fs) :
                          /\ WrittenName(body[P[j]], fs[j])
                                 \in {fs[j].field_name} \cup {fs[j].alias[i] : i \in DOMAIN fs[j].alias}
                          /\ EndsWith(body[P[j]], <<";">>)
                          /\ j \in doc =>
                               /\ P[j] > 1
                               /\ body[P[j] - 1] = DocPrefix \o fs[j].description[1] \o <<" ","*","/">>
                          /\ j \notin doc => P[j] = (IF j = 1 THEN 1 ELSE P[j - 1] + 1)

\* C15 witness: in the body of Gadget, owner_ref has its comment line above
\* it, and status, whose description is the empty str, has none
C15_Witness ==
    /\ pc = "gen_done"
    /\ models = <<GadgetModel>>
    /\ GadgetModel.fields[2].description = << <<>> >>
    /\ SubSeq(lines, 6, 14) = << <<"e","x","p","o","r","t"," ","i","n","t","e","r","f","a","c","e"," ","G","a","d","g","e","t"," ","{">>,
                                 <<" "," ","/","*","*"," ","T","h","e"," ","o","w","n","e","r"," ","*","/">>,
                                 <<" "," ","o","w","n","e","r","R","e","f","?",":"," ","W","i","d","g","e","t"," ","|"," ","n","u","l","l",";">>,
                                 <<" "," ","s","t","a","t","u","s",":"," ","S","t","a","t","u","s",";">>,
                                 <<" "," ","p","a","r","e","n","t",":"," ","s","t","r","i","n","g"," ","|"," ","n","u","l","l",";">>,
                                 <<" "," ","/","*","*"," ","H","o","w"," ","m","a","n","y"," ","*","/">>,
                                 <<" "," ","c","o","u","n","t","?",":"," ","n","u","m","b","e","r",";">>,
                                 <<" "," ","p","a","i","r",":"," ","a","n","y",";">>,
                                 <<"}">> >>

-----------------------------------------------------------------------------
(* Claims about unrecognized forms, failures, literals and independence *)

\* the text before the first "[" of a textual type that has one
TextContainer(s) == SubSeq(s, 1, Find(s, <<"[">>) - 1)

RecognizedTextContainers == { <<"l","i","s","t">>, <<"L","i","s","t">>, <<"d","i","c","t">>, <<"D","i","c","t">>, <<"O","p","t","i","o","n","a","l">> }

\* C16: a generic annotation whose origin is not list, dict, Union or Literal
\* maps to "any", the annotation None maps to "any", and a textual type of the
\* form Container[...] without a union, whose container is not list, List,
\* dict, Dict or Optional, maps to "any" as well.
C16_UnrecognizedFormsAreAny ==
    /\ pc = "ann_done" /\ annotation.kind = "Generic"
          /\ annotation.origin \notin {"list", "dict", "typing.Union", "typing.Literal"}
          => ret = <<"a","n","y">>
    /\ pc = "ann_done" /\ annotation = NoneAnn => ret = <<"a","n","y">>
    /\ pc = "text_done" /\ Contains(python_type, <<"[">>) /\ EndsWith(python_type, <<"]">>)
          /\ ~Contains(python_type, Bar)
          /\ TextContainer(python_type) \notin RecognizedTextContainers
          => ret = <<"a","n","y">>

\* the fields of m whose type the mapper cannot resolve: the call raises, or
\* the annotation is a generic that is neither list, dict, Union nor Literal
BadFields(m, enums) ==
    { j \in 1..Len(m.fields) :
        \/ Raises(m.fields[j].annotation, enums)
        \/ /\ m.fields[j].annotation.kind = "Generic"
           /\ m.fields[j].annotation.origin
                  \notin {"list", "dict", "typing.Union", "typing.Literal"} }

\* C17: every pass returns; its output has, for every model of the batch, one
\* field line per field, and the line of a field whose type cannot be
\* resolved ends in ": any;".
C17_BadFieldBecomesAny ==
    pc \in {"gen_done", "gen_raised"} =>
        /\ pc = "gen_done"
        /\ LET M == InterfacesOf(models)
               H == LinesStarting(ExportInterface)
           IN  /\ Len(H) = Len(M)
               /\ \A k \in 1..Len(M) :
                    LET fl == FieldLinesIn(Body(H[k]))
                    IN  /\ Len(fl) = Len(M[k].fields)
                        /\ \A j \in BadFields(M[k], known_enums) :
                             EndsWith(fl[j], <<":"," ","a","n","y",";">>)

\* C18: a Literal annotation maps to the tokens of its arguments, in declared
\* order, joined by " | "; the token of a str argument is the str in double
\* quotes, the token of an enum member (or of an enum-like object with a value
\* attribute) is its value in double quotes and never its name, and the token
\* of any other argument is its str() text in double quotes.
C18_LiteralRendering ==
    pc = "ann_done" /\ annotation.kind = "Generic" /\ annotation.origin = "typing.Literal" =>
        LET a      == annotation.args
            text(v) == IF v.t = "int" THEN IntToStr(v.n) ELSE v.s
            tok(x) == <<"\"">> \o text(x.value) \o <<"\"">>
        IN  /\ ret = Join([i \in 1..Len(a) |-> tok(a[i])], Bar)
            /\ Len(Split(ret, Bar)) = Len(a)
            /\ \A i \in 1..Len(a) :
                 a[i].kind = "EnumMember" =>
                    /\ Split(ret, Bar)[i] # <<"\"">> \o a[i].name \o <<"\"">>
                    /\ ~Contains(ret, a[i].name)
            /\ annotation = Generic("typing.Literal", <<EnumMember(<<"R","E","D">>, StrVal(<<"r","e","d">>)), StrValue(<<"l","e","f","t">>)>>)
                  => ret = <<"\"","r","e","d","\""," ","|"," ","\"","l","e","f","t","\"">>
            /\ annotation = Generic("typing.Literal", <<Other(IntVal(12)), ValueObj(StrVal(<<"b","l","u","e">>))>>)
                  => ret = <<"\"","1","2","\""," ","|"," ","\"","b","l","u","e","\"">>

\* C18 witness: Literal[Color.RED, "left"] has been mapped
C18_Witness ==
    /\ pc = "ann_done"
    /\ annotation = Generic("typing.Literal", <<EnumMember(<<"R","E","D">>, StrVal(<<"r","e","d">>)), StrValue(<<"l","e","f","t">>)>>)
    /\ ret = <<"\"","r","e","d","\""," ","|"," ","\"","l","e","f","t","\"">>

\* the states in which a mapper call is about to be made or is running: the
\* standalone calls, and the generator's loops over the models and over the
\* fields of one model, which make the call of line 1276
MapperCallPcs ==
    { "call_python_type_to_ts", "call_get_ts_type_from_annotation", "interfaces",
      "fields", "first_call", "text_returned", "ann_returned", "second_call" }

\* a call of get_ts_type_from_annotation, at whatever depth, is at its return
\* statement with a value other than the one its annotation and the registry
\* determine
ReturnsOtherValue ==
    /\ InCall
    /\ Top.fn = "get_ts_type_from_annotation"
    /\ Top.at = "return"
    /\ Top.value # get_ts_type_from_annotation(Top.annotation, known_enums)

\* C19: the type mapping is a pure function of the type and the registry.  Run
\* statement by statement and called a second time with the same type and the
\* same registry object as soon as it has returned, it returns the string it
\* returned the first time and raises only if it raised the first time; every
\* call, nested or not, made standalone or by the generator for a field of the
\* model it is emitting, returns the value its type and the registry
\* determine; and no statement of a call changes the registry or the model
\* list.
C19_MappingIsPure ==
    [][ /\ pc' \in {"text_returned_again", "ann_returned_again"} => ret' = prev'
        /\ pc' # "call_raised_again"
        /\ ~ReturnsOtherValue
        /\ pc \in MapperCallPcs => known_enums' = known_enums /\ models' = models ]_vars

\* C19 witness: with Status registered, Status | list[str] | None has been
\* mapped twice, each time through five calls (the union, Status, the list,
\* str, and python_type_to_ts for str)
C19_Witness ==
    /\ pc = "ann_returned_again"
    /\ annotation = UnionType(<<Class(N_Status), Generic("list", <<Class(N_str)>>), NoneTypeAnn>>)
    /\ known_enums = {N_Status}
    /\ stack = <<>>
    /\ prev = <<"S","t","a","t","u","s"," ","|"," ","s","t","r","i","n","g","[","]"," ","|"," ","n","u","l","l">>
    /\ ret = prev

\* the buffer and the return value of a pass over ms that runs alone
AloneLines(ms) ==
    LET E == EnumsOf(ms)
        M == InterfacesOf(ms)
    IN  Banner
          \o Flatten([i \in 1..Len(E) |-> EnumBlock(E[i])])
          \o Flatten([i \in 1..Len(M) |-> InterfaceBlock(M[i], EnumNamesOf(ms))])

Alone(ms) == Join(AloneLines(ms), <<"\n">>)

IsPrefix(s, t) == Len(s) <= Len(t) /\ SubSeq(t, 1, Len(s)) = s

\* C20: when two passes run interleaved, at every point the registry of each
\* pass holds only names of enums of its own batch, the buffer of each pass is
\* a prefix of the buffer it fills when it runs alone, and the value each pass
\* returns is the value it returns when it runs alone.
C20_PassesIndependent ==
    /\ known_enums \subseteq EnumNamesOf(models)
    /\ IsPrefix(lines, AloneLines(models))
    /\ pc = "gen_done" => ret = Alone(models)
    /\ \A i \in DOMAIN suspended :
         /\ suspended[i].known_enums \subseteq EnumNamesOf(suspended[i].models)
         /\ IsPrefix(suspended[i].lines, AloneLines(suspended[i].models))
         /\ suspended[i].pc = "gen_done" => suspended[i].ret = Alone(suspended[i].models)

\* C20 witness: the pass over [Event] has returned "day: string" while the
\* pass over the enum named date is switched out in its interface loop with
\* date in its registry
C20_Witness ==
    /\ pc = "gen_done"
    /\ models = <<EventModel>>
    /\ lines[7] = <<" "," ","d","a","y",":"," ","s","t","r","i","n","g",";">>
    /\ ret = Alone(<<EventModel>>)
    /\ suspended # <<>>
    /\ suspended[1].pc = "interfaces"
    /\ suspended[1].models = <<DateEnum>>
    /\ suspended[1].known_enums = {N_date}

-----------------------------------------------------------------------------
(* Claim about module-qualified union members on the textual path *)

\* C28: for a union string without brackets whose members are all
\* module-qualified names, python_type_to_ts returns a union with as many
\* members, each the mapping of the corresponding member with its module
\* prefix removed.
C28_QualifiedUnionMembersKept ==
    pc = "text_done" /\ Contains(python_type, Bar) /\ ~Contains(python_type, <<"[">>)
        /\ (\A i \in DOMAIN Split(python_type, Bar) :
                Contains(Split(python_type, Bar)[i], <<".">>))
      => LET parts == Split(python_type, Bar)
         IN  /\ Len(Split(ret, Bar)) = Len(parts)
             /\ ret = Join([i \in 1..Len(parts) |->
                              python_type_to_ts(LastSegment(Strip(parts[i])))], Bar)

-----------------------------------------------------------------------------
(* Claims about the accessibility tree *)

\* the nodes of the tree below node, node first, in pre-order
RECURSIVE PreOrder(_)
PreOrder(node) ==
    <<node>> \o Flatten([i \in 1..Len(node.children) |-> PreOrder(node.children[i])])

\* C21: get_node_by_ref(ref) leaves the tree as it is; it returns None exactly
\* when no node of the tree has the ref, and otherwise the first node in
\* pre-order that has it, at whatever depth.
C21_GetNodeByRef ==
    [][ pc = "snapshot" /\ pc' = "node_by_ref_done" =>
            LET P    == PreOrder(self.root)
                ref  == call_args'[1]
                hits == { i \in 1..Len(P) : P[i].ref = ref }
            IN  /\ self' = self
                /\ ret' = <<>> <=> hits = {}
                /\ hits # {} =>
                     /\ ret' = << P[CHOOSE i \in hits : \A j \in hits : i <= j] >>
                     /\ ret'[1].ref = ref ]_vars

\* C21 witness: "@e1" is found two levels down in the first subtree, before
\* the node with the same ref that is a child of the root
C21_Witness ==
    /\ pc = "node_by_ref_done"
    /\ self = [root |-> Node("@e2", TRUE,
                  << Node("@e2", TRUE, << Node("@e1", TRUE, <<>>) >>),
                     Node("@e1", FALSE, <<>>) >>)]
    /\ call_args = <<"@e1">>
    /\ ret = << Node("@e1", TRUE, <<>>) >>

\* C22: get_interactive_nodes() returns the nodes of the tree whose
\* is_interactive is True, each once, in pre-order, and nothing else; the list
\* is empty when no node is interactive.
C22_GetInteractiveNodes ==
    pc = "interactive_nodes_done" =>
        LET P == PreOrder(self.root)
        IN  /\ ret = SelectSeq(P, LAMBDA n : n.is_interactive)
            /\ Len(ret) = Cardinality({ i \in 1..Len(P) : P[i].is_interactive })
            /\ \A i \in 1..Len(ret) : ret[i].is_interactive
            /\ (\A i \in 1..Len(P) : ~P[i].is_interactive) => ret = <<>>

\* C22 witness: three interactive nodes, one of them below another, under a
\* root that is not interactive
C22_Witness ==
    /\ pc = "interactive_nodes_done"
    /\ self = [root |-> Node("@e1", FALSE,
                  << Node("@e1", TRUE, << Node("@e2", TRUE, <<>>) >>),
                     Node("@e1", TRUE, <<>>) >>)]
    /\ ret = << Node("@e1", TRUE, << Node("@e2", TRUE, <<>>) >>),
                Node("@e2", TRUE, <<>>),
                Node("@e1", TRUE, <<>>) >>

-----------------------------------------------------------------------------
(* Claims about the virtual desktop *)

\* the states of a run on a virtual desktop
OnDesktop == pc \in {"desktop", "converted", "converted_back", "ValueError"}

\* the monitor conversion just called names an index no monitor of the desktop has
IndexAbsent ==
    \A i \in 1..Len(self.monitors) : self.monitors[i].index # call_args[4]

\* C23: the coordinate conversions are mutual inverses: converting a point to
\* virtual (or screen, or monitor-relative) coordinates and back with the
\* opposite conversion returns the point, for the monitor conversions with every
\* index the desktop has; with an index the desktop does not have both monitor
\* conversions raise ValueError (and only then).
C23_ConversionsAreInverses ==
    /\ pc = "converted_back" => ret = <<call_args[2], call_args[3]>>
    /\ (pc \in {"converted", "ValueError"} /\ Len(call_args) = 4)
          => (pc = "ValueError" <=> IndexAbsent)

C23_Witness ==
    /\ pc = "converted_back"
    /\ call_args[1] = "screen_to_virtual"
    /\ min_x(self) < 0 /\ min_y(self) < 0
    /\ ret = <<call_args[2], call_args[3]>>
    /\ ret # <<0, 0>>

\* C24: on a desktop with at least one monitor, a screen point contained in one
\* of the monitors is converted to virtual coordinates (vx, vy) with
\* 0 <= vx < width and 0 <= vy < height, and the bounding box
\* (min_x, min_y, max_x, max_y) contains every monitor.
C24_VirtualWithinBounds ==
    (OnDesktop /\ Len(self.monitors) >= 1) =>
       /\ \A i \in 1..Len(self.monitors) :
             /\ min_x(self) <= self.monitors[i].x
             /\ min_y(self) <= self.monitors[i].y
             /\ right(self.monitors[i]) <= max_x(self)
             /\ bottom(self.monitors[i]) <= max_y(self)
       /\ ( /\ pc = "converted"
            /\ call_args[1] = "screen_to_virtual"
            /\ \E i \in 1..Len(self.monitors) :
                  contains_point(self.monitors[i], call_args[2], call_args[3]) )
          => /\ 0 <= ret[1] /\ ret[1] < width(self)
             /\ 0 <= ret[2] /\ ret[2] < height(self)

C24_Witness ==
    /\ pc = "converted"
    /\ call_args[1] = "screen_to_virtual"
    /\ Len(self.monitors) = 2
    /\ min_x(self) < 0
    /\ call_args[2] < 0
    /\ contains_point(self.monitors[2], call_args[2], call_args[3])
    /\ ret[1] >= 0 /\ ret[1] < width(self)

-----------------------------------------------------------------------------
(* Claims about Coordinates and Region *)

\* C25: monitor_index is required when the system is MONITOR_RELATIVE: every
\* Coordinates or Region value that was created with system MONITOR_RELATIVE
\* has a monitor_index, and a creation with system MONITOR_RELATIVE and no
\* monitor_index ends in a validation error and produces no value.
C25_MonitorIndexRequired ==
    /\ pc = "created" =>
          (ret.system = <<MONITOR_RELATIVE>> => ret.monitor_index # <<>>)
    /\ ( /\ pc \in {"created", "ValidationError"}
         /\ call_args[2].system = <<MONITOR_RELATIVE>>
         /\ call_args[2].monitor_index = <<>> )
       => (pc = "ValidationError" /\ ret = <<>>)

C25_Witness ==
    /\ pc = "ValidationError"
    /\ call_args[1] = "Region"
    /\ RegionFieldsValid(call_args[2])
    /\ call_args[2].system = <<MONITOR_RELATIVE>>
    /\ call_args[2].monitor_index = <<>>

-----------------------------------------------------------------------------
(* Claims about main and generate_from_json_schema *)

\* a run of main that has ended
MainEnded == call_args = <<"main">> /\ pc \in {"complete", "exit", "raised"}

\* a call of generate_from_json_schema on its own that has ended
JsonSchemaEnded ==
    call_args = <<"generate_from_json_schema">> /\ pc \in {"returned", "raised"}

\* C26: main tries pydantic2ts first and falls back to manual generation: the
\* batch generators run only if generate_with_pydantic2ts returned False, the
\* process ends with status 1 exactly when pydantic2ts returned False and the
\* manual path returned False too, and every other run reaches the completion
\* message.
C26_MainFallsBack ==
    /\ (call_args = <<"main">> /\ GeneratorsCalled # <<>>)
          => (called[1] = "generate_with_pydantic2ts" /\ results[1] = FALSE)
    /\ MainEnded =>
          /\ ret = <<1>> <=> results = <<FALSE, FALSE>>
          /\ results # <<FALSE, FALSE>> => pc = "complete"

\* C27: generate_from_json_schema calls all thirteen batch generators in the
\* fixed order (the root QontinuiConfig generator after the workflow one),
\* goes on after a generator that failed, and returns True exactly when every
\* generator returned True.
C27_AllGeneratorsRun ==
    /\ Len(Generators) = 13
    /\ \E i, j \in 1..Len(Generators) :
          /\ Generators[i] = "generate_workflow_types"
          /\ Generators[j] = "generate_qontinui_config_types"
          /\ i < j
    /\ call_args = <<"generate_from_json_schema">> =>
          GeneratorsCalled = SubSeq(Generators, 1, Len(GeneratorsCalled))
    /\ JsonSchemaEnded =>
          /\ pc = "returned"
          /\ GeneratorsCalled = Generators
          /\ ret = <<failures = 0>>

-----------------------------------------------------------------------------
(* Claims about GUIElementChunk *)

\* C29: Qdrant round trip: the chunk read back with from_qdrant_point from the
\* point that to_qdrant_point produced equals the chunk in every field, the
\* embeddings included whether they are None, an empty list or a non-empty
\* list, and the stored payload has neither of the two embedding keys.
C29_QdrantRoundTrip ==
    /\ pc = "chunk_read" => ret = self
    /\ pc = "point" =>
          DOMAIN ret.payload \cap {"text_embedding", "image_embedding"} = {}

-----------------------------------------------------------------------------
(* Claims about the test run completion *)

\* C30: every status string the TestRunComplete validator accepts is a value
\* of TestRunStatus, so the status of an accepted completion request can be
\* carried by TestRunCompleteResponse.status; every other string is rejected.
C30_AcceptedStatusIsTestRunStatus ==
    /\ pc = "status_accepted" => ret \in TestRunStatusValues
    /\ pc # "response_rejected"
    /\ (pc \in {"status_accepted", "status_rejected"} /\ call_args[1] \notin TestRunStatusValues)
          => pc = "status_rejected"

=============================================================================
